---- MODULE Spec2Model ----
(***************************************************************************)
(* Model of the LSTV uncertainty pipeline:                                 *)
(*   - src/src/inference.py        run_inference (leakage filter, mode     *)
(*                                 selection, study loop, results CSV)     *)
(*   - src/src/generate_report.py  generate_report (risk classification,   *)
(*                                 candidate ranking, top-N tables)        *)
(*   - src/src/inference.py        UncertaintyCalculator,                  *)
(*                                 probability_to_point_with_uncertainty,  *)
(*                                 read_dicom_series                       *)
(*   - src/src/generate_report.py  load_dicom_slice                        *)
(*                                                                         *)
(* Numbers.  Confidences are held in thousandths (0.97 is 970) and         *)
(* entropies in tenths (5.2 is 52).  Decimal values of at most three       *)
(* digits compare as floats exactly as their scaled integers compare.      *)
(***************************************************************************)
EXTENDS Integers, Sequences, FiniteSets, TLC

(***************************************************************************)
(* Bounds of the model.                                                    *)
(***************************************************************************)
\* longest results table whose rows are drawn freely from the sample sets
MaxRows == 3
\* longest structured results table (longer than the top-20 candidate table)
MaxLargeRows == 21
\* most rows of the series-description CSV
MaxSeriesRows == 3

(***************************************************************************)
(* generate_report: constants                                              *)
(***************************************************************************)
\* generate_report.py:688  HIGH_RISK_CONF = 0.97
HIGH_RISK_CONF == 970
\* generate_report.py:689  MODERATE_RISK_CONF = 0.985
MODERATE_RISK_CONF == 985
\* generate_report.py:690  HIGH_RISK_ENTROPY = 5.2
HIGH_RISK_ENTROPY == 52
\* generate_report.py:735  .head(20)
TopCandidatesN == 20
\* generate_report.py:761, 781  .head(5)
CaseImagesN == 5

(***************************************************************************)
(* run_inference: constants                                                *)
(***************************************************************************)
\* inference.py:266  min(10, len(studies))
TrialStudies == 10

VARIABLES
    rpc,               \* generate_report: position in the function
    df,                \* generate_report: the frame read from csv_path
    stats,             \* generate_report: the risk counts and thresholds of stats
    ranked,            \* generate_report: df.sort_values('l5_s1_confidence')
    top_df,            \* generate_report: ranked.head(20)
    ranked_high,       \* generate_report: High Risk rows, sorted
    high_risk_df,      \* generate_report: ranked_high.head(5)
    ranked_moderate,   \* generate_report: Moderate Risk rows, sorted
    moderate_risk_df   \* generate_report: ranked_moderate.head(5)

reportVars == <<rpc, df, stats, ranked, top_df, ranked_high, high_risk_df,
                ranked_moderate, moderate_risk_df>>

VARIABLES
    ipc,                  \* run_inference: position in the function
    mode,                 \* args.mode
    debug_study_id,       \* args.debug_study_id
    valid_ids,            \* the loaded validation ids, or None
    use_validation_only,  \* whether the validation filter is on
    t2_df,                \* the Sagittal T2 rows of the series CSV
    studies,              \* the study list: candidates, filtered, selected
    model,                \* the loaded model, or None (mock mode)
    visited,              \* number of loop iterations begun so far
    results,              \* the list of result records
    skipped,              \* the studies the loop skipped, with the reason logged
    output_csv,           \* lstv_uncertainty_metrics.csv in output_dir: its
                          \* rows, and whether this run has written it
    debug_pngs,           \* files in output_dir/debug_visualizations
    exception,            \* the exception that ended run_inference, if any
    error_log             \* the messages run_inference passed to logger.error

inferenceVars == <<ipc, mode, debug_study_id, valid_ids, use_validation_only,
                   t2_df, studies, model, visited, results, skipped,
                   output_csv, debug_pngs, exception, error_log>>

VARIABLES
    heatmap,       \* UncertaintyCalculator: the (H, W) probability map
    num_bins,      \* calculate_spatial_entropy: the grid size
    uncertainty,   \* the results of the calls of calculate_uncertainty, in order
    spatial        \* the results of the calls of calculate_spatial_entropy, in order

calcVars == <<heatmap, num_bins, uncertainty, spatial>>

VARIABLES
    probability,          \* probability_to_point_with_uncertainty: the stack
    threshold,            \* the detection threshold
    l_loop,               \* the loop variable l of "for l in range(1, 6)"
    points,               \* the list of points
    uncertainty_metrics,  \* the dict of the metrics of each level
    returned              \* the values (points, uncertainty_metrics) the calls
                          \* made so far on this stack returned, in order

pointVars == <<probability, threshold, l_loop, points, uncertainty_metrics,
               returned>>

VARIABLES
    series_path,   \* read_dicom_series, load_dicom_slice: the series directory
    dpc,           \* which of the two functions has returned
    dicom_volume,  \* the value read_dicom_series returned
    img            \* the value load_dicom_slice returned

dicomVars == <<series_path, dpc, dicom_volume, img>>

metricVars == <<calcVars, pointVars, dicomVars>>

VARIABLES
    series_dir,     \* rename_dcm_files_sequential: the directory, each file
                    \* held as the name it had before the first call
    dcm_files,      \* the sorted list of the files
    idx,            \* the loop index
    rnpc,           \* position in the function
    rename_calls,   \* the number of calls that have returned
    before_rename,  \* the directory as it was before the first call
    after_first     \* the directory as the first call left it

renameVars == <<series_dir, dcm_files, idx, rnpc, rename_calls, before_rename,
                after_first>>

VARIABLES
    xpc,                 \* extract_validation_dicoms.main: position
    train_images,        \* the study directories under source_dicom_dir
    extract_valid_ids,   \* valid_ids
    extract_t2_df,       \* t2_df
    validation_studies,  \* the studies of the loop
    extract_visited,     \* number of loop iterations done
    studies_metadata,    \* the dict, as its items in insertion order
    skipped_studies,     \* the list of the studies without source directory
    output_dicoms,       \* the series directories written under output_dicoms
    metadata,            \* study_metadata.json, once written
    extract_exception    \* how main ended: exit status or exception

extractVars == <<xpc, train_images, extract_valid_ids, extract_t2_df,
                 validation_studies, extract_visited, studies_metadata,
                 skipped_studies, output_dicoms, metadata, extract_exception>>

VARIABLES
    upload_folder,  \* web/app.py: the files in app.config['UPLOAD_FOLDER']
    request,        \* the /analyze request each handler thread serves
    wpc,            \* the position of each handler thread in analyze()
    dcm_read,       \* what pydicom.dcmread returned to each thread
    response        \* the response each thread returned

webVars == <<upload_folder, request, wpc, dcm_read, response>>

toolVars == <<renameVars, extractVars, webVars>>

vars == <<reportVars, inferenceVars, metricVars, toolVars>>

(***************************************************************************)
(* Helpers                                                                 *)
(***************************************************************************)
Min(a, b) == IF a <= b THEN a ELSE b

Range(s) == {s[i] : i \in DOMAIN s}

\* the rows of s whose risk_level is label, order kept
\* (pandas boolean indexing df[df['risk_level'] == label])
RECURSIVE SelectRows(_, _)
SelectRows(s, label) ==
    IF s = <<>> THEN <<>>
    ELSE IF Head(s).risk_level = label
         THEN <<Head(s)>> \o SelectRows(Tail(s), label)
         ELSE SelectRows(Tail(s), label)

(***************************************************************************)
(* run_inference: values and inputs                                        *)
(***************************************************************************)
\* Python values of a study id: an int (a numeric CSV column, an element of
\* an integer array) or a str (a text column, a command-line argument)
PyInt(text) == <<"int", text>>
PyStr(text) == <<"str", text>>

\* str(x)
str(x) == PyStr(x[2])

\* the study ids that occur as text in the files; "A" is not a number
StudyTexts == {"1", "2", "A"}
NumericTexts == {"1", "2"}

LevelNames == <<"l1_l2", "l2_l3", "l3_l4", "l4_l5", "l5_s1">>

SeriesDescriptions == {"Sagittal T2/STIR", "Axial T2"}

\* series_description.str.lower().str.contains('sagittal')
ContainsSagittal(d) == d \in {"Sagittal T2/STIR", "Sagittal T1"}

\* series_description.str.lower().str.contains('t2')
ContainsT2(d) == d \in {"Sagittal T2/STIR", "Axial T2"}

\* the series-description CSV files: up to MaxSeriesRows rows, the series
\* of a row numbered by its position in the file
SeriesFiles ==
    UNION {
      {[i \in 1..n |-> [study_id |-> ids[i], series_id |-> i,
                        series_description |-> ds[i]]] :
          ids \in [1..n -> StudyTexts],
          ds \in [1..n -> SeriesDescriptions]}
      : n \in 0..MaxSeriesRows}

\* pd.read_csv: the study_id column is int64 when every cell is a number,
\* else it holds the cells as str
read_csv(file) ==
    LET numeric == \A i \in DOMAIN file : file[i].study_id \in NumericTexts
    IN  [i \in DOMAIN file |->
            [study_id |-> IF numeric THEN PyInt(file[i].study_id)
                          ELSE PyStr(file[i].study_id),
             series_id |-> file[i].series_id,
             series_description |-> file[i].series_description]]

\* lines 247-248: the sagittal rows, then the T2 rows among them
RECURSIVE SagittalT2(_)
SagittalT2(frame) ==
    IF frame = <<>> THEN <<>>
    ELSE IF ContainsSagittal(Head(frame).series_description)
            /\ ContainsT2(Head(frame).series_description)
         THEN <<Head(frame)>> \o SagittalT2(Tail(frame))
         ELSE SagittalT2(Tail(frame))

\* mutant: the study of every row is listed, repeated ids included
unique_study_ids_KeepsRepeats(frame, seen) ==
    [i \in 1..Len(frame) |-> frame[i].study_id]

\* line 251: t2_df['study_id'].unique(), in order of first appearance
RECURSIVE unique_study_ids(_, _)
unique_study_ids(frame, seen) ==
    IF frame = <<>> THEN <<>>
    ELSE IF Head(frame).study_id \in seen
         THEN unique_study_ids(Tail(frame), seen)
         ELSE <<Head(frame).study_id>>
                \o unique_study_ids(Tail(frame), seen \cup {Head(frame).study_id})

\* line 316: t2_df[t2_df['study_id'] == study_id]
RECURSIVE study_series(_, _)
study_series(frame, study_id) ==
    IF frame = <<>> THEN <<>>
    ELSE IF Head(frame).study_id = study_id
         THEN <<Head(frame)>> \o study_series(Tail(frame), study_id)
         ELSE study_series(Tail(frame), study_id)

\* valid_ids = None
None == [none |-> TRUE, ids |-> {}]

\* line 227: set([str(id) for id in valid_ids])
LoadedIds(texts) == [none |-> FALSE, ids |-> {str(PyInt(t)) : t \in texts}]

(***************************************************************************)
(* run_inference: leakage filter and mode selection (lines 254-275)        *)
(***************************************************************************)
RECURSIVE KeepValid(_, _)
KeepValid(list, ids) ==
    IF list = <<>> THEN <<>>
    ELSE IF str(Head(list)) \in ids
         THEN <<Head(list)>> \o KeepValid(Tail(list), ids)
         ELSE KeepValid(Tail(list), ids)

\* mutant: a missing validation file is treated as an empty validation set
validation_filter_MissingIsEmpty(list, only, vids) == KeepValid(list, vids.ids)

\* lines 255-257: studies = [s for s in studies if str(s) in valid_ids]
validation_filter(list, only, vids) ==
    IF only /\ ~vids.none THEN KeepValid(list, vids.ids) ELSE list

\* the sequences of k distinct elements of S
RECURSIVE Arrangements(_, _)
Arrangements(S, k) ==
    IF k = 0 THEN {<<>>}
    ELSE UNION {{<<x>> \o t : t \in Arrangements(S \ {x}, k - 1)} : x \in S}

\* line 266: np.random.choice(studies, min(10, len(studies)), replace=False)
random_choice(list) == Arrangements(Range(list), Min(TrialStudies, Len(list)))

(***************************************************************************)
(* run_inference: metrics and the result record (lines 355-363, 392-412)   *)
(***************************************************************************)
\* the random streams generate_mock_uncertainty may draw from: every draw
\* near the lower end of its range, or every draw near the upper end
MockStreams == {"lower", "upper"}

\* np.random.uniform(lo, hi) under a stream; lo and hi in the unit of the metric
uniform(lo, hi, stream) == IF stream = "lower" THEN lo ELSE hi - 1

\* generate_mock_uncertainty(): lines 396-410
generate_mock_uncertainty(stream) ==
    [level \in Range(LevelNames) |->
        IF level \in {"l4_l5", "l5_s1"}
        THEN [peak_confidence |-> uniform(300, 600, stream),
              entropy |-> uniform(45, 65, stream),
              spatial_entropy |-> uniform(15, 35, stream),
              num_pixels_above_threshold |-> uniform(100, 500, stream)]
        ELSE [peak_confidence |-> uniform(700, 950, stream),
              entropy |-> uniform(20, 40, stream),
              spatial_entropy |-> uniform(15, 35, stream),
              num_pixels_above_threshold |-> uniform(100, 500, stream)]]

\* lines 360-363: the three columns of one level
level_columns(level, metrics) ==
    (level \o "_confidence" :> metrics[level].peak_confidence)
      @@ (level \o "_entropy" :> metrics[level].entropy)
      @@ (level \o "_spatial_entropy" :> metrics[level].spatial_entropy)

RECURSIVE add_levels(_, _, _)
add_levels(result, levels, metrics) ==
    IF levels = <<>> THEN result
    ELSE add_levels(result @@ level_columns(Head(levels), metrics),
                    Tail(levels), metrics)

\* mutant: the record is filed under the text of the series id, not under
\* the study
result_record_UnderSeries(study_id, series_id, metrics) ==
    add_levels(("study_id" :> <<"int", ToString(series_id)>>)
                  @@ ("series_id" :> series_id),
               LevelNames, metrics)

\* mutant: the loop over the levels stops before l5_s1
result_record_FourLevels(study_id, series_id, metrics) ==
    add_levels(("study_id" :> study_id) @@ ("series_id" :> series_id),
               SubSeq(LevelNames, 1, 4), metrics)

\* lines 355-363: the record appended to results
result_record(study_id, series_id, metrics) ==
    add_levels(("study_id" :> study_id) @@ ("series_id" :> series_id),
               LevelNames, metrics)

(***************************************************************************)
(* run_inference: the steps of the function                                *)
(***************************************************************************)
Modes == {"trial", "debug", "prod"}

\* lstv_uncertainty_metrics.csv as run_inference finds it in output_dir: no
\* file (no rows), or the table an earlier run wrote there
EarlierTables ==
    {<<>>,
     <<result_record(PyInt("1"), 1, generate_mock_uncertainty("lower"))>>}

InferenceInit ==
    /\ ipc = "start"
    /\ mode \in Modes
    /\ debug_study_id \in {""} \cup (IF mode = "debug" THEN StudyTexts ELSE {})
    /\ valid_ids = None
    /\ use_validation_only = FALSE
    /\ t2_df = <<>>
    /\ studies = <<>>
    /\ model = "unset"
    /\ visited = 0
    /\ results = <<>>
    /\ skipped = <<>>
    /\ output_csv \in {[written |-> FALSE, rows |-> rows] : rows \in EarlierTables}
    /\ debug_pngs = {}
    /\ exception = "none"
    /\ error_log = {}

\* lines 223-235: load the validation ids if the file exists
LoadValidIds ==
    /\ ipc = "start"
    /\ \E exists \in BOOLEAN :
          IF exists
          THEN /\ \E texts \in SUBSET StudyTexts : valid_ids' = LoadedIds(texts)
               /\ use_validation_only' = TRUE
          ELSE /\ valid_ids' = None
               /\ use_validation_only' = FALSE
    /\ ipc' = "ids"
    /\ UNCHANGED <<mode, debug_study_id, t2_df, studies, model, visited,
                   results, skipped, output_csv, debug_pngs, exception>>
    /\ UNCHANGED error_log
    /\ UNCHANGED <<reportVars, metricVars, toolVars>>

\* lines 237-252: read the series CSV, keep Sagittal T2, list the studies
LoadSeries ==
    /\ ipc = "ids"
    /\ \E exists \in BOOLEAN :
          IF exists
          THEN \E file \in SeriesFiles :
                  /\ t2_df' = SagittalT2(read_csv(file))
                  /\ studies' = unique_study_ids(t2_df', {})
                  /\ ipc' = "series"
                  /\ UNCHANGED error_log
          ELSE /\ error_log' = error_log \cup {"Series CSV not found"}
               /\ ipc' = "returned"
               /\ UNCHANGED <<t2_df, studies>>
    /\ UNCHANGED <<mode, debug_study_id, valid_ids, use_validation_only, model,
                   visited, results, skipped, output_csv, debug_pngs, exception>>
    /\ UNCHANGED <<reportVars, metricVars, toolVars>>

\* lines 254-262: the validation set filter
FilterValidation ==
    /\ ipc = "series"
    /\ studies' = validation_filter(studies, use_validation_only, valid_ids)
    /\ ipc' = "filtered"
    /\ UNCHANGED <<mode, debug_study_id, valid_ids, use_validation_only, t2_df,
                   model, visited, results, skipped, output_csv, debug_pngs,
                   exception>>
    /\ UNCHANGED error_log
    /\ UNCHANGED <<reportVars, metricVars, toolVars>>

\* lines 264-275: select the studies of the mode
SelectStudies ==
    /\ ipc = "filtered"
    /\ \/ /\ mode = "trial"
          /\ \E chosen \in random_choice(studies) : studies' = chosen
          /\ ipc' = "selected"
          /\ UNCHANGED exception
       \/ /\ mode = "debug"
          /\ debug_study_id # ""
          /\ studies' = <<PyStr(debug_study_id)>>
          /\ ipc' = "selected"
          /\ UNCHANGED exception
       \/ /\ mode = "debug"
          /\ debug_study_id = ""
          /\ IF studies = <<>>
             THEN /\ exception' = "IndexError"
                  /\ ipc' = "raised"
                  /\ UNCHANGED studies
             ELSE /\ studies' = <<studies[1]>>
                  /\ ipc' = "selected"
                  /\ UNCHANGED exception
       \/ /\ mode = "prod"
          /\ ipc' = "selected"
          /\ UNCHANGED <<studies, exception>>
    /\ UNCHANGED <<mode, debug_study_id, valid_ids, use_validation_only, t2_df,
                   model, visited, results, skipped, output_csv, debug_pngs>>
    /\ UNCHANGED error_log
    /\ UNCHANGED <<reportVars, metricVars, toolVars>>

\* mutant: a missing checkpoint is logged and the run goes on in mock mode
LoadModel_MissingRunsMock ==
    /\ ipc = "selected"
    /\ \E exists \in BOOLEAN :
          IF exists
          THEN \E loads \in BOOLEAN :
                  /\ model' = IF loads THEN "SimplePointNet" ELSE "None"
                  /\ error_log' = IF loads THEN error_log
                                  ELSE error_log \cup {"Error loading model"}
          ELSE /\ error_log' = error_log \cup {"Checkpoint not found"}
               /\ model' = "None"
    /\ ipc' = "loop"
    /\ UNCHANGED <<mode, debug_study_id, valid_ids, use_validation_only, t2_df,
                   studies, visited, results, skipped, output_csv, debug_pngs,
                   exception>>
    /\ UNCHANGED <<reportVars, metricVars, toolVars>>

\* lines 277-305: load the checkpoint; a failing load leaves model = None
LoadModel ==
    /\ ipc = "selected"
    /\ \E exists \in BOOLEAN :
          IF exists
          THEN /\ \E loads \in BOOLEAN :
                     /\ model' = IF loads THEN "SimplePointNet" ELSE "None"
                     /\ error_log' = IF loads THEN error_log
                                     ELSE error_log \cup {"Error loading model"}
               /\ ipc' = "loop"
          ELSE /\ error_log' = error_log \cup {"Checkpoint not found"}
               /\ ipc' = "returned"
               /\ UNCHANGED model
    /\ UNCHANGED <<mode, debug_study_id, valid_ids, use_validation_only, t2_df,
                   studies, visited, results, skipped, output_csv, debug_pngs,
                   exception>>
    /\ UNCHANGED <<reportVars, metricVars, toolVars>>

\* lines 310-369: one iteration of the study loop
ProcessStudy ==
    /\ ipc = "loop"
    /\ visited < Len(studies)
    /\ LET study_id == studies[visited + 1]
           series == study_series(t2_df, study_id)
       IN  IF series = <<>>
           THEN /\ skipped' = Append(skipped, <<study_id, "No Sagittal T2 series found">>)
                /\ UNCHANGED <<results, debug_pngs>>
           ELSE LET series_id == series[1].series_id
                IN  \E volume \in {"None", "volume"} :
                       IF volume = "None"
                       THEN /\ skipped' = Append(skipped,
                                             <<study_id, "Failed to load volume">>)
                            /\ UNCHANGED <<results, debug_pngs>>
                       ELSE \E stream \in MockStreams :
                              /\ results' = Append(results,
                                    result_record(study_id, series_id,
                                        generate_mock_uncertainty(stream)))
                              /\ debug_pngs' =
                                    IF mode = "debug"
                                    THEN debug_pngs \cup {<<study_id, series_id>>}
                                    ELSE debug_pngs
                              /\ UNCHANGED skipped
    /\ visited' = visited + 1
    /\ UNCHANGED <<ipc, mode, debug_study_id, valid_ids, use_validation_only,
                   t2_df, studies, model, output_csv, exception>>
    /\ UNCHANGED error_log
    /\ UNCHANGED <<reportVars, metricVars, toolVars>>

\* lines 371-389: write the results CSV, then log the summary statistics
\* (results_df[entropy_col] raises KeyError on a frame without rows)
SaveResults ==
    /\ ipc = "loop"
    /\ visited = Len(studies)
    /\ output_csv' = [written |-> TRUE, rows |-> results]
    /\ IF results = <<>>
       THEN /\ exception' = "KeyError"
            /\ ipc' = "raised"
       ELSE /\ ipc' = "done"
            /\ UNCHANGED exception
    /\ UNCHANGED <<mode, debug_study_id, valid_ids, use_validation_only, t2_df,
                   studies, model, visited, results, skipped, debug_pngs>>
    /\ UNCHANGED error_log
    /\ UNCHANGED <<reportVars, metricVars, toolVars>>

Next ==
    \/ LoadValidIds
    \/ LoadSeries
    \/ FilterValidation
    \/ SelectStudies
    \/ LoadModel
    \/ ProcessStudy
    \/ SaveResults

(***************************************************************************)
(* generate_report: the inputs read from csv_path                          *)
(***************************************************************************)
\* sample L5-S1 confidences: below, at and between the two thresholds
ConfSamples == {960, HIGH_RISK_CONF, 975, MODERATE_RISK_CONF, 990}
\* sample L5-S1 entropies: at and above the entropy threshold
EntropySamples == {HIGH_RISK_ENTROPY, HIGH_RISK_ENTROPY + 1}

CsvRow(id, c, e) ==
    [study_id |-> id, l5_s1_confidence |-> c, l5_s1_entropy |-> e]

\* tables of up to MaxRows rows: study ids 1..n listed in ascending or in
\* descending order, metrics free
SmallTables ==
    UNION {
      {[i \in 1..n |-> CsvRow(IF asc THEN i ELSE n + 1 - i, cs[i], es[i])] :
          asc \in BOOLEAN,
          cs \in [1..n -> ConfSamples],
          es \in [1..n -> EntropySamples]}
      : n \in 0..MaxRows}

\* tables of 19..MaxLargeRows rows: study i has confidence 0.950 + 0.002 i
\* (except that study tie+1 repeats the confidence of study tie) and an
\* entropy cycling through 5.0 .. 5.3; the file lists the studies in
\* ascending or descending id order
LargeConf(i, tie) ==
    IF tie > 0 /\ i = tie + 1 THEN 950 + 2 * tie ELSE 950 + 2 * i

LargeRow(i, tie) == CsvRow(i, LargeConf(i, tie), 50 + (i % 4))

LargeTies == {0, 3, 12, 20}

LargeTables ==
    UNION {
      {[k \in 1..n |-> LargeRow(IF asc THEN k ELSE n + 1 - k, tie)] :
          tie \in {t \in LargeTies : t < n},
          asc \in BOOLEAN}
      : n \in (TopCandidatesN - 1)..MaxLargeRows}

ReportTables == SmallTables \cup LargeTables

(***************************************************************************)
(* generate_report: classification (lines 692-705)                         *)
(***************************************************************************)
\* line 696
high_risk_mask(row) ==
    (row.l5_s1_confidence < HIGH_RISK_CONF) \/ (row.l5_s1_entropy > HIGH_RISK_ENTROPY)

\* line 700
moderate_risk_mask(row) ==
    (row.l5_s1_confidence < MODERATE_RISK_CONF) /\ (row.l5_s1_confidence >= HIGH_RISK_CONF)

\* mutant: the moderate assignment forgets "& ~high_risk_mask"
risk_level_ModerateOverwrites(row) ==
    LET l0 == "Low Risk"
        l1 == IF high_risk_mask(row) THEN "High Risk" ELSE l0
        l2 == IF moderate_risk_mask(row) THEN "Moderate Risk" ELSE l1
    IN  l2

\* mutant: the column is not initialised to 'Low Risk'
risk_level_NoDefault(row) ==
    LET l0 == "Unclassified"
        l1 == IF high_risk_mask(row) THEN "High Risk" ELSE l0
        l2 == IF moderate_risk_mask(row) /\ ~high_risk_mask(row)
              THEN "Moderate Risk" ELSE l1
    IN  l2

\* mutant: the high mask uses <= on the confidence
risk_level_InclusiveHigh(row) ==
    LET l0 == "Low Risk"
        l1 == IF (row.l5_s1_confidence <= HIGH_RISK_CONF)
                  \/ (row.l5_s1_entropy > HIGH_RISK_ENTROPY)
              THEN "High Risk" ELSE l0
        l2 == IF moderate_risk_mask(row) /\ l1 # "High Risk"
              THEN "Moderate Risk" ELSE l1
    IN  l2

\* lines 693, 697, 701: the three assignments to df['risk_level'], in order
risk_level(row) ==
    LET l0 == "Low Risk"
        l1 == IF high_risk_mask(row) THEN "High Risk" ELSE l0
        l2 == IF moderate_risk_mask(row) /\ ~high_risk_mask(row)
              THEN "Moderate Risk" ELSE l1
    IN  l2

WithRisk(row) ==
    [study_id |-> row.study_id,
     l5_s1_confidence |-> row.l5_s1_confidence,
     l5_s1_entropy |-> row.l5_s1_entropy,
     risk_level |-> risk_level(row)]

\* lines 703-705: (df['risk_level'] == label).sum()
CountLabel(frame, label) ==
    Cardinality({i \in DOMAIN frame : frame[i].risk_level = label})

(***************************************************************************)
(* generate_report: ranking (lines 735, 761, 781)                          *)
(***************************************************************************)
\* every arrangement of the rows idxs of frame that ascends in confidence
RECURSIVE SortedArrangements(_, _)
SortedArrangements(frame, idxs) ==
    IF idxs = {} THEN {<<>>}
    ELSE LET least == CHOOSE i \in idxs :
                        \A j \in idxs :
                            frame[i].l5_s1_confidence <= frame[j].l5_s1_confidence
             ties == {i \in idxs :
                        frame[i].l5_s1_confidence = frame[least].l5_s1_confidence}
         IN  UNION {{<<frame[i]>> \o t : t \in SortedArrangements(frame, idxs \ {i})}
                    : i \in ties}

\* mutant: descending sort
sort_values_Descending(frame) ==
    {[i \in DOMAIN s |-> s[Len(s) + 1 - i]] :
        s \in SortedArrangements(frame, DOMAIN frame)}

\* DataFrame.sort_values('l5_s1_confidence'): ascending; the default
\* kind='quicksort' leaves the relative order of equal keys unspecified, so
\* every ascending arrangement is a possible result
sort_values(frame) == SortedArrangements(frame, DOMAIN frame)

\* mutant: head drops one row too many
head_OffByOne(frame, n) == SubSeq(frame, 1, Min(n, Len(frame)) - 1)

\* DataFrame.head(n)
head(frame, n) == SubSeq(frame, 1, Min(n, Len(frame)))

(***************************************************************************)
(* generate_report: the steps of the function                              *)
(***************************************************************************)
ReportInit ==
    /\ rpc = "start"
    /\ df = <<>>
    /\ stats = [high_risk_count |-> 0, moderate_risk_count |-> 0,
                low_risk_count |-> 0,
                high_risk_conf_threshold |-> HIGH_RISK_CONF,
                moderate_risk_conf_threshold |-> MODERATE_RISK_CONF]
    /\ ranked = <<>>
    /\ top_df = <<>>
    /\ ranked_high = <<>>
    /\ high_risk_df = <<>>
    /\ ranked_moderate = <<>>
    /\ moderate_risk_df = <<>>

\* line 673: df = pd.read_csv(csv_path)
ReadCsv ==
    /\ rpc = "start"
    /\ \E t \in ReportTables : df' = t
    /\ rpc' = "loaded"
    /\ UNCHANGED <<stats, ranked, top_df, ranked_high, high_risk_df,
                   ranked_moderate, moderate_risk_df>>
    /\ UNCHANGED <<inferenceVars, metricVars, toolVars>>

\* lines 684-725: risk_level column and the three counts
Classify ==
    /\ rpc = "loaded"
    /\ df' = [i \in DOMAIN df |-> WithRisk(df[i])]
    /\ stats' = [high_risk_count |-> CountLabel(df', "High Risk"),
                 moderate_risk_count |-> CountLabel(df', "Moderate Risk"),
                 low_risk_count |-> CountLabel(df', "Low Risk"),
                 high_risk_conf_threshold |-> HIGH_RISK_CONF,
                 moderate_risk_conf_threshold |-> MODERATE_RISK_CONF]
    /\ rpc' = "classified"
    /\ UNCHANGED <<ranked, top_df, ranked_high, high_risk_df,
                   ranked_moderate, moderate_risk_df>>
    /\ UNCHANGED <<inferenceVars, metricVars, toolVars>>

\* lines 733-752: top candidates table
TopCandidates ==
    /\ rpc = "classified"
    /\ \E s \in sort_values(df) :
          /\ ranked' = s
          /\ top_df' = head(s, TopCandidatesN)
    /\ rpc' = "ranked"
    /\ UNCHANGED <<df, stats, ranked_high, high_risk_df,
                   ranked_moderate, moderate_risk_df>>
    /\ UNCHANGED <<inferenceVars, metricVars, toolVars>>

\* lines 757-798: case images, only with data_dir and series_df
CaseImages ==
    /\ rpc = "ranked"
    /\ \E has_case_images \in BOOLEAN :
          IF has_case_images
          THEN /\ \E s \in sort_values(SelectRows(df, "High Risk")) :
                     /\ ranked_high' = s
                     /\ high_risk_df' = head(s, CaseImagesN)
               /\ \E s \in sort_values(SelectRows(df, "Moderate Risk")) :
                     /\ ranked_moderate' = s
                     /\ moderate_risk_df' = head(s, CaseImagesN)
               /\ rpc' = "cases"
          ELSE /\ UNCHANGED <<ranked_high, high_risk_df,
                              ranked_moderate, moderate_risk_df>>
               /\ rpc' = "nocases"
    /\ UNCHANGED <<df, stats, ranked, top_df>>
    /\ UNCHANGED <<inferenceVars, metricVars, toolVars>>

\* lines 813-830: render and write the HTML
Render ==
    /\ rpc \in {"cases", "nocases"}
    /\ rpc' = IF rpc = "cases" THEN "done_cases" ELSE "done"
    /\ UNCHANGED <<df, stats, ranked, top_df, ranked_high, high_risk_df,
                   ranked_moderate, moderate_risk_df>>
    /\ UNCHANGED <<inferenceVars, metricVars, toolVars>>

(***************************************************************************)
(* UncertaintyCalculator (inference.py:44-101)                             *)
(*                                                                         *)
(* Numbers.  A heatmap is a probability map: a sequence of H rows of W     *)
(* entries, the entries held in quarters (0.5 is 2, 1.0 is 4).  An entropy *)
(* is held to first order in the guard epsilon = 1e-9 as a record          *)
(*     [milli |-> thousandths of a nat, pico |-> trillionths of a nat]     *)
(* milli is the Shannon entropy of the normalised masses; pico is the      *)
(* first-order effect of the two "+ 1e-9" guards,                          *)
(*     epsilon * ((1 - entropy) / sum - number of non-zero masses),        *)
(* which decides the sign of the result where milli is 0.                  *)
(***************************************************************************)
\* most rows, and most columns, of a heatmap
MaxSide == 3
\* most calls of one function of the calculator on the same heatmap
MaxCalls == 2

\* the values of an entry of a probability map, in quarters
PixelValues == 0..4

\* np.log on the integers, in thousandths: LnMilli[n] = round(1000 * ln(n))
LnMilli ==
    <<0, 693, 1099, 1386, 1609, 1792, 1946, 2079, 2197, 2303, 2398, 2485,
      2565, 2639, 2708, 2773, 2833, 2890, 2944, 2996, 3045, 3091, 3135,
      3178, 3219, 3258, 3296, 3332, 3367, 3401, 3434, 3466, 3497, 3526,
      3555, 3584, 3611, 3638, 3664, 3689, 3714, 3738, 3761, 3784, 3807,
      3829, 3850, 3871, 3892, 3912, 3932, 3951, 3970, 3989, 4007, 4025,
      4043, 4060, 4078, 4094, 4111, 4127, 4143, 4159, 4174, 4190, 4205,
      4220, 4234, 4248, 4263, 4277, 4290, 4304, 4317, 4331, 4344, 4357,
      4369, 4382, 4394, 4407, 4419, 4431, 4443, 4454, 4466, 4477, 4489,
      4500, 4511, 4522, 4533, 4543, 4554, 4564, 4575, 4585, 4595, 4605>>

RECURSIVE SumSeq(_)
SumSeq(s) == IF s = <<>> THEN 0 ELSE Head(s) + SumSeq(Tail(s))

RECURSIVE MaxSeq(_)
MaxSeq(s) ==
    IF Len(s) = 1 THEN Head(s)
    ELSE LET m == MaxSeq(Tail(s)) IN IF Head(s) >= m THEN Head(s) ELSE m

\* heatmap.flatten(): the rows one after the other
RECURSIVE flatten(_)
flatten(h) == IF h = <<>> THEN <<>> ELSE Head(h) \o flatten(Tail(h))

\* sum of w * log(w) over the masses, in thousandths (0 * log(..) is 0)
RECURSIVE SumWLn(_)
SumWLn(w) ==
    IF w = <<>> THEN 0
    ELSE (IF Head(w) = 0 THEN 0 ELSE Head(w) * LnMilli[Head(w)])
            + SumWLn(Tail(w))

\* lines 64-67 and 97-99:
\*   p = w / (np.sum(w) + 1e-9);  -np.sum(p * np.log(p + 1e-9))
\* with all masses 0 every p is 0 and every term is 0 * log(1e-9) = 0
shannon_entropy(w) ==
    LET total == SumSeq(w)
        nonzero == Cardinality({i \in DOMAIN w : w[i] # 0})
        milli == IF total = 0 THEN 0
                 ELSE LnMilli[total] - (SumWLn(w) \div total)
        pico == IF total = 0 THEN 0
                ELSE ((4000 - 4 * milli) \div total) - 1000 * nonzero
    IN  [milli |-> milli, pico |-> pico]

\* mutant: the calculator remembers that it has been used: after the first
\* call of probability_to_point_with_uncertainty has returned it reports no
\* confidence
calculate_uncertainty_Stateful(h) ==
    [peak_confidence |-> IF returned = <<>> THEN MaxSeq(flatten(h)) ELSE 0,
     entropy |-> shannon_entropy(flatten(h))]

\* lines 59-69: calculate_uncertainty(heatmap)
calculate_uncertainty(h) ==
    LET peak_confidence == MaxSeq(flatten(h))
        flat_prob == flatten(h)
    IN  [peak_confidence |-> peak_confidence,
         entropy |-> shannon_entropy(flat_prob)]

\* lines 92-94: np.sum(heatmap[i*bh:(i+1)*bh, j*bw:(j+1)*bw]), i and j from 0
region_sum(h, i, j, bin_height, bin_width) ==
    LET rows == (i * bin_height + 1)..((i + 1) * bin_height)
        cols == (j * bin_width + 1)..((j + 1) * bin_width)
        cells == [n \in 1..(bin_height * bin_width) |->
                    h[i * bin_height + 1 + ((n - 1) \div bin_width)]
                     [j * bin_width + 1 + ((n - 1) % bin_width)]]
    IN  IF rows = {} \/ cols = {} THEN 0 ELSE SumSeq(cells)

\* mutant: the last region of each row of regions runs to the last column of
\* the heatmap, and the regions of the last row to its last row
binned_probs_KeepsTrailing(h, bins) ==
    LET H == Len(h)
        W == Len(h[1])
        bin_height == H \div bins
        bin_width == W \div bins
        rows(i) == (i * bin_height + 1)..
                      (IF i = bins - 1 THEN H ELSE (i + 1) * bin_height)
        cols(j) == (j * bin_width + 1)..
                      (IF j = bins - 1 THEN W ELSE (j + 1) * bin_width)
        RECURSIVE total(_)
        total(S) == IF S = {} THEN 0
                    ELSE LET p == CHOOSE x \in S : TRUE
                         IN  h[p[1]][p[2]] + total(S \ {p})
    IN  [n \in 1..(bins * bins) |->
            IF bin_height = 0 \/ bin_width = 0 THEN 0
            ELSE total(rows((n - 1) \div bins) \X cols((n - 1) % bins))]

\* lines 89-96: the masses of the num_bins * num_bins regions, row by row
binned_probs(h, bins) ==
    LET H == Len(h)
        W == Len(h[1])
        bin_height == H \div bins
        bin_width == W \div bins
    IN  [n \in 1..(bins * bins) |->
            region_sum(h, (n - 1) \div bins, (n - 1) % bins,
                       bin_height, bin_width)]

\* lines 83-101: calculate_spatial_entropy(heatmap, num_bins)
calculate_spatial_entropy(h, bins) == shannon_entropy(binned_probs(h, bins))

\* calculate_spatial_entropy(heatmap, num_bins=10): the default grid size
DefaultNumBins == 10

\* the grid sizes a caller passes: small ones, and the default
GridSizes == (1..MaxSide) \cup {DefaultNumBins}

\* the shapes (H, W) of the heatmaps
Shapes == (1..MaxSide) \X (1..MaxSide)

\* the sets of at most two positions (row, column) of an H by W heatmap
HotSets(H, W) ==
    LET positions == (1..H) \X (1..W)
    IN  {{}} \cup {{p, q} : p \in positions, q \in positions}

\* the heatmap with entry value[p] at the positions p of hot, bg elsewhere
SpotHeatmap(H, W, bg, hot, value) ==
    [r \in 1..H |-> [c \in 1..W |->
        IF <<r, c>> \in hot THEN value[<<r, c>>] ELSE bg]]

\* the H by W heatmaps with background bg and at most two hot entries
SpotHeatmaps(H, W, bg, HotValues) ==
    UNION {{SpotHeatmap(H, W, bg, hot, value) : value \in [hot -> HotValues]}
           : hot \in HotSets(H, W)}

\* the heatmaps handed to the calculator: every constant heatmap, and peaks
\* of 0.75 or 1.0 on a background of 0 or of 1.0 on a background of 0.25
CalcHeatmaps ==
    UNION {{SpotHeatmap(s[1], s[2], q, {}, <<>>) : q \in PixelValues}
             \cup SpotHeatmaps(s[1], s[2], 0, {3, 4})
             \cup SpotHeatmaps(s[1], s[2], 1, {4})
           : s \in Shapes}

CalcInit ==
    /\ heatmap \in CalcHeatmaps
    /\ num_bins \in GridSizes
    /\ uncertainty = <<>>
    /\ spatial = <<>>

\* the calculator before any call
CalcIdle ==
    /\ heatmap = <<>>
    /\ num_bins = DefaultNumBins
    /\ uncertainty = <<>>
    /\ spatial = <<>>

\* one call calc.calculate_uncertainty(heatmap)
CalculateUncertainty ==
    /\ heatmap # <<>>
    /\ Len(uncertainty) < MaxCalls
    /\ uncertainty' = Append(uncertainty, calculate_uncertainty(heatmap))
    /\ UNCHANGED <<heatmap, num_bins, spatial>>
    /\ UNCHANGED <<reportVars, inferenceVars, pointVars, dicomVars, toolVars>>

\* one call calc.calculate_spatial_entropy(heatmap, num_bins)
CalculateSpatialEntropy ==
    /\ heatmap # <<>>
    /\ Len(spatial) < MaxCalls
    /\ spatial' = Append(spatial, calculate_spatial_entropy(heatmap, num_bins))
    /\ UNCHANGED <<heatmap, num_bins, uncertainty>>
    /\ UNCHANGED <<reportVars, inferenceVars, pointVars, dicomVars, toolVars>>

CalcNext ==
    \/ CalculateUncertainty
    \/ CalculateSpatialEntropy

(***************************************************************************)
(* probability_to_point_with_uncertainty (inference.py:104-148)            *)
(*                                                                         *)
(* The stack probability of shape (6, H, W) is a sequence of six heatmaps: *)
(* channel c of the code is element c + 1.  Rows and columns are counted   *)
(* from 0 in a point, as numpy counts them.                                *)
(***************************************************************************)
\* threshold: float = 0.5, in quarters
DefaultThreshold == 2

\* the None of a point (None, None): no row or column has this index
NoneCoord == -1

\* mutant: the channels are read from 0, the background taken for level 1
level_heatmap_FromBackground(prob, lv) == prob[lv]

\* line 124: heatmap = probability[l]
level_heatmap(prob, lv) == prob[lv + 1]

\* mutant: the pixels at the threshold are counted too
where_above_Inclusive(h, t) ==
    {p \in (0..(Len(h) - 1)) \X (0..(Len(h[1]) - 1)) : h[p[1] + 1][p[2] + 1] >= t}

\* line 132: y, x = np.where(heatmap > threshold), as the set of the
\* (row, column) pairs found
where_above(h, t) ==
    {p \in (0..(Len(h) - 1)) \X (0..(Len(h[1]) - 1)) : h[p[1] + 1][p[2] + 1] > t}

RECURSIVE SumCoord(_, _)
SumCoord(hits, k) ==
    IF hits = {} THEN 0
    ELSE LET p == CHOOSE q \in hits : TRUE
         IN  p[k] + SumCoord(hits \ {p}, k)

\* round(a / n) of Python 3 for a >= 0: the nearest integer, a tie going
\* to the even one
py_round(a, n) ==
    LET q == a \div n
        twice == 2 * (a % n)
    IN  IF twice < n THEN q
        ELSE IF twice > n THEN q + 1
        ELSE IF q % 2 = 0 THEN q ELSE q + 1

\* lines 133-138: the point (x_mean, y_mean), or (None, None)
detect_point(hits) ==
    IF Cardinality(hits) > 0
    THEN LET y_mean == py_round(SumCoord(hits, 1), Cardinality(hits))
             x_mean == py_round(SumCoord(hits, 2), Cardinality(hits))
         IN  <<x_mean, y_mean>>
    ELSE <<NoneCoord, NoneCoord>>

\* lines 128-129, 141-146: the metrics of one level
level_metrics(h, t) ==
    LET unc == calculate_uncertainty(h)
    IN  [peak_confidence |-> unc.peak_confidence,
         entropy |-> unc.entropy,
         spatial_entropy |-> calculate_spatial_entropy(h, DefaultNumBins),
         num_pixels_above_threshold |-> Cardinality(where_above(h, t))]

\* mutant: the metrics of a level are kept only where a point was found
store_metrics_OnlyDetected(dict, level_name, m) ==
    IF m.num_pixels_above_threshold > 0 THEN (level_name :> m) @@ dict ELSE dict

\* line 141: uncertainty_metrics[level_name] = {...}
store_metrics(dict, level_name, m) == (level_name :> m) @@ dict

\* the heatmap whose entries are all q
ConstantHeatmap(H, W, q) == SpotHeatmap(H, W, q, {}, <<>>)

\* the threshold arguments: the default, and 0.75
Thresholds == {DefaultThreshold, 3}

\* the shapes (H, W) of the stacks: one or two columns
StackShapes == (1..MaxSide) \X (1..2)

\* the stacks: channel 0 all 0.0 or all 1.0; one level k with at most two
\* peaks of 1.0 on a background of 0; each other level c constant at
\* (c - 1) / 4
Stacks ==
    UNION {{[c1 \in 1..6 |->
                IF c1 = 1 THEN ConstantHeatmap(s[1], s[2], b)
                ELSE IF c1 = k + 1 THEN g
                ELSE ConstantHeatmap(s[1], s[2], c1 - 2)] :
              b \in {0, 4},
              k \in 1..5,
              g \in SpotHeatmaps(s[1], s[2], 0, {4})}
           : s \in StackShapes}

PointInit ==
    /\ probability \in Stacks
    /\ threshold \in Thresholds
    /\ l_loop = 1
    /\ points = <<>>
    /\ uncertainty_metrics = <<>>
    /\ returned = <<>>

\* probability_to_point_with_uncertainty before it is called
PointIdle ==
    /\ probability = <<>>
    /\ threshold = DefaultThreshold
    /\ l_loop = 1
    /\ points = <<>>
    /\ uncertainty_metrics = <<>>
    /\ returned = <<>>

\* lines 123-146: one iteration of "for l in range(1, 6)"
PointLevel ==
    /\ probability # <<>>
    /\ Len(returned) < MaxCalls
    /\ l_loop < 6
    /\ LET h == level_heatmap(probability, l_loop)
           level_name == LevelNames[l_loop]
       IN  /\ points' = Append(points, detect_point(where_above(h, threshold)))
           /\ uncertainty_metrics' =
                 store_metrics(uncertainty_metrics, level_name,
                               level_metrics(h, threshold))
    /\ l_loop' = l_loop + 1
    /\ UNCHANGED <<probability, threshold, returned>>
    /\ UNCHANGED <<reportVars, inferenceVars, calcVars, dicomVars, toolVars>>

\* line 148: return points, uncertainty_metrics; the caller may then call
\* the function on the same stack again (lines 117-119 start it afresh)
PointReturn ==
    /\ probability # <<>>
    /\ l_loop = 6
    /\ Len(returned) < MaxCalls
    /\ returned' = Append(returned, <<points, uncertainty_metrics>>)
    /\ l_loop' = 1
    /\ points' = <<>>
    /\ uncertainty_metrics' = <<>>
    /\ UNCHANGED <<probability, threshold>>
    /\ UNCHANGED <<reportVars, inferenceVars, calcVars, dicomVars, toolVars>>

PointNext ==
    \/ PointLevel
    \/ PointReturn

(***************************************************************************)
(* read_dicom_series (inference.py:161-194) and load_dicom_slice           *)
(* (generate_report.py:601-621)                                            *)
(*                                                                         *)
(* A slice file N.dcm is named by the digits of N: <<1, 0>> is 10.dcm.     *)
(* A slice is held as the intensity of its pixel_array.                    *)
(***************************************************************************)
\* most .dcm files of a series directory
MaxSlices == 3

\* the file names 1.dcm, 2.dcm, 3.dcm, 10.dcm, 20.dcm
SliceNames == {<<1>>, <<2>>, <<3>>, <<1, 0>>, <<2, 0>>}

\* the intensities of a pixel_array
Intensities == {0, 50, 100}

\* the number a run of digits is read as
RECURSIVE NumberOf(_)
NumberOf(d) ==
    IF d = <<>> THEN 0
    ELSE 10 * NumberOf(SubSeq(d, 1, Len(d) - 1)) + d[Len(d)]

\* a < b as Python compares the strings a.dcm and b.dcm ("." sorts below
\* every digit, so a name that is a proper prefix of another comes first)
RECURSIVE LexLess(_, _)
LexLess(a, b) ==
    IF a = <<>> THEN b # <<>>
    ELSE IF b = <<>> THEN FALSE
    ELSE IF Head(a) # Head(b) THEN Head(a) < Head(b)
    ELSE LexLess(Tail(a), Tail(b))

\* mutant: sorted(files), the order of the strings
RECURSIVE natsorted_Lexicographic(_)
natsorted_Lexicographic(files) ==
    IF files = {} THEN <<>>
    ELSE LET first == CHOOSE f \in files :
                         \A g \in files \ {f} : LexLess(f, g)
         IN  <<first>> \o natsorted_Lexicographic(files \ {first})

\* natsorted(files): digits compared as numbers
RECURSIVE natsorted(_)
natsorted(files) ==
    IF files = {} THEN <<>>
    ELSE LET first == CHOOSE f \in files :
                         \A g \in files : NumberOf(f) <= NumberOf(g)
         IN  <<first>> \o natsorted(files \ {first})

\* the series directories: missing, or holding at most MaxSlices .dcm files,
\* each readable by pydicom or not
SeriesDirs ==
    {[exists |-> FALSE, files |-> <<>>]}
      \cup UNION {{[exists |-> TRUE, files |-> f] :
                      f \in [names -> [readable : BOOLEAN,
                                       pixel_array : Intensities]]}
                  : names \in {n \in SUBSET SliceNames :
                                  Cardinality(n) <= MaxSlices}}

\* the return value None of the two functions
NoArray == [none |-> TRUE, slices |-> <<>>]

\* inference.py:151-158: normalise_to_8bit(volume), on the intensities
normalise_to_8bit(slices) ==
    LET values == {slices[i].pixel_array : i \in DOMAIN slices}
        vmin == CHOOSE v \in values : \A w \in values : v <= w
        vmax == CHOOSE v \in values : \A w \in values : v >= w
    IN  [i \in DOMAIN slices |->
            [file |-> slices[i].file,
             pixel_array |-> IF vmax > vmin
                             THEN ((slices[i].pixel_array - vmin) * 255)
                                      \div (vmax - vmin)
                             ELSE 0]]

\* inference.py:172-194: read_dicom_series(study_path, series_id)
read_dicom_series(dir) ==
    IF ~dir.exists THEN NoArray
    ELSE LET dicom_files == natsorted(DOMAIN dir.files)
         IN  IF dicom_files = <<>> THEN NoArray
             ELSE IF \E i \in DOMAIN dicom_files :
                        ~dir.files[dicom_files[i]].readable
                  THEN NoArray
                  ELSE [none |-> FALSE,
                        slices |-> normalise_to_8bit(
                            [i \in DOMAIN dicom_files |->
                                [file |-> dicom_files[i],
                                 pixel_array |->
                                    dir.files[dicom_files[i]].pixel_array]])]

\* generate_report.py:603-621: load_dicom_slice(study_path, series_id), the
\* slice in the middle; the image is held as the file it was read from
load_dicom_slice(dir) ==
    IF ~dir.exists THEN NoArray
    ELSE LET dicom_files == natsorted(DOMAIN dir.files)
         IN  IF dicom_files = <<>> THEN NoArray
             ELSE LET slice_idx == Len(dicom_files) \div 2
                      dcm_file == dicom_files[slice_idx + 1]
                  IN  IF ~dir.files[dcm_file].readable THEN NoArray
                      ELSE [none |-> FALSE, slices |-> <<[file |-> dcm_file]>>]

DicomInit ==
    /\ series_path \in SeriesDirs
    /\ dpc = "start"
    /\ dicom_volume = NoArray
    /\ img = NoArray

\* the two functions before they are called
DicomIdle ==
    /\ series_path = [exists |-> FALSE, files |-> <<>>]
    /\ dpc = "start"
    /\ dicom_volume = NoArray
    /\ img = NoArray

\* volume = read_dicom_series(study_path, str(series_id))
ReadDicomSeries ==
    /\ dpc \in {"start", "slice"}
    /\ dicom_volume' = read_dicom_series(series_path)
    /\ dpc' = IF dpc = "start" THEN "series" ELSE "both"
    /\ UNCHANGED <<series_path, img>>
    /\ UNCHANGED <<reportVars, inferenceVars, calcVars, pointVars, toolVars>>

\* sagittal_img = load_dicom_slice(study_path, series_id)
LoadDicomSlice ==
    /\ dpc \in {"start", "series"}
    /\ img' = load_dicom_slice(series_path)
    /\ dpc' = IF dpc = "start" THEN "slice" ELSE "both"
    /\ UNCHANGED <<series_path, dicom_volume>>
    /\ UNCHANGED <<reportVars, inferenceVars, calcVars, pointVars, toolVars>>

DicomNext ==
    \/ ReadDicomSeries
    \/ LoadDicomSlice

\* the calculator, the point detection and the readers before any call
MetricsIdle == CalcIdle /\ PointIdle /\ DicomIdle

(***************************************************************************)
(* extract_validation_dicoms.py: rename_dcm_files_sequential (lines 40-55) *)
(***************************************************************************)
MaxRenameCalls == 2

\* the names (without .dcm) of the files of a directory to rename, as their
\* digits: slices numbered from 1 or from 0, plain or padded to three digits
RenameNames ==
    {<<0>>, <<1>>, <<2>>, <<3>>, <<1, 0>>,
     <<0, 0, 0>>, <<0, 0, 1>>, <<0, 0, 2>>, <<0, 0, 3>>}

\* a directory holding the files of the given names, each file holding the
\* content that goes by its name
DirOf(names) == [exists |-> TRUE, files |-> [n \in names |-> n]]

NoDir == [exists |-> FALSE, files |-> <<>>]

RenameDirs ==
    {NoDir} \cup {DirOf(names) : names \in {n \in SUBSET RenameNames :
                                              Cardinality(n) <= MaxSlices}}

\* natsorted(list(series_dir.glob('*.dcm'))): the files by their numbers;
\* files of the same number (1.dcm, 001.dcm) keep the order of glob, which
\* is any order
natsorted_orders(files) ==
    {o \in Arrangements(files, Cardinality(files)) :
        \A i \in DOMAIN o : \A j \in DOMAIN o :
            i < j => NumberOf(o[i]) <= NumberOf(o[j])}

\* line 48: f"{idx:03d}", as its digits
new_name(i) == <<i \div 100, (i \div 10) % 10, i % 10>>

\* lines 52-53: dcm_file.rename(new_path) unless the name is new_name
\* already; Path.rename replaces a file that has the new name
rename_file(files, dcm_file, i) ==
    IF dcm_file = new_name(i) THEN files
    ELSE [n \in (DOMAIN files \ {dcm_file}) \cup {new_name(i)} |->
             IF n = new_name(i) THEN files[dcm_file] ELSE files[n]]

\* lines 47-53: the loop from index i on
RECURSIVE rename_loop(_, _, _)
rename_loop(files, sorted, i) ==
    IF i > Len(sorted) THEN files
    ELSE rename_loop(rename_file(files, sorted[i], i), sorted, i + 1)

RenameInit ==
    /\ series_dir \in RenameDirs
    /\ dcm_files = <<>>
    /\ idx = 0
    /\ rnpc = "idle"
    /\ rename_calls = 0
    /\ before_rename = series_dir
    /\ after_first = NoDir

RenameIdle ==
    /\ series_dir = NoDir
    /\ dcm_files = <<>>
    /\ idx = 0
    /\ rnpc = "idle"
    /\ rename_calls = 0
    /\ before_rename = NoDir
    /\ after_first = NoDir

\* lines 42-45: return 0 for a missing directory, else list and sort
RenameStart ==
    /\ rnpc = "idle"
    /\ rename_calls < MaxRenameCalls
    /\ IF ~series_dir.exists
       THEN /\ rename_calls' = rename_calls + 1
            /\ UNCHANGED <<dcm_files, idx, rnpc>>
       ELSE /\ \E o \in natsorted_orders(DOMAIN series_dir.files) :
                  dcm_files' = o
            /\ idx' = 1
            /\ rnpc' = "loop"
            /\ UNCHANGED rename_calls
    /\ UNCHANGED <<series_dir, before_rename, after_first>>
    /\ UNCHANGED <<reportVars, inferenceVars, metricVars, extractVars, webVars>>

\* lines 47-53: one iteration of the loop
RenameFile ==
    /\ rnpc = "loop"
    /\ idx <= Len(dcm_files)
    /\ series_dir' = [series_dir EXCEPT
                         !.files = rename_file(@, dcm_files[idx], idx)]
    /\ idx' = idx + 1
    /\ UNCHANGED <<dcm_files, rnpc, rename_calls, before_rename, after_first>>
    /\ UNCHANGED <<reportVars, inferenceVars, metricVars, extractVars, webVars>>

\* line 55: return len(dcm_files)
RenameReturn ==
    /\ rnpc = "loop"
    /\ idx > Len(dcm_files)
    /\ rnpc' = "idle"
    /\ rename_calls' = rename_calls + 1
    /\ after_first' = IF rename_calls = 0 THEN series_dir ELSE after_first
    /\ UNCHANGED <<series_dir, dcm_files, idx, before_rename>>
    /\ UNCHANGED <<reportVars, inferenceVars, metricVars, extractVars, webVars>>

RenameNext ==
    \/ RenameStart
    \/ RenameFile
    \/ RenameReturn

(***************************************************************************)
(* extract_validation_dicoms.py: main (lines 57-268)                       *)
(***************************************************************************)
\* line 106: the rows whose description contains 'T2', whatever the case
RECURSIVE T2Rows(_)
T2Rows(frame) ==
    IF frame = <<>> THEN <<>>
    ELSE IF ContainsT2(Head(frame).series_description)
         THEN <<Head(frame)>> \o T2Rows(Tail(frame))
         ELSE T2Rows(Tail(frame))

\* line 110: t2_df[t2_df['study_id'].isin(valid_ids)], valid_ids a list of
\* int: a study id held as str is equal to none of them
RECURSIVE isin_rows(_, _)
isin_rows(frame, ids) ==
    IF frame = <<>> THEN <<>>
    ELSE IF Head(frame).study_id \in ids
         THEN <<Head(frame)>> \o isin_rows(Tail(frame), ids)
         ELSE isin_rows(Tail(frame), ids)

\* a series directory under a source study directory: missing, without
\* .dcm files, or holding slices numbered from 1 or from 000
SourceSeriesDirs ==
    {NoDir, DirOf({}), DirOf({<<1>>, <<2>>}),
     DirOf({<<0, 0, 0>>, <<0, 0, 1>>})}

\* lines 34-38: count_dcm_files(series_dir)
count_dcm_files(dir) ==
    IF ~dir.exists THEN 0 ELSE Cardinality(DOMAIN dir.files)

\* mutant: a series without .dcm files is listed as well
RECURSIVE series_entries_KeepsEmpty(_, _, _)
series_entries_KeepsEmpty(rows, dirs, i) ==
    IF i > Len(rows) THEN <<>>
    ELSE IF ~dirs[i].exists
         THEN series_entries_KeepsEmpty(rows, dirs, i + 1)
         ELSE <<[series_id |-> rows[i].series_id,
                 series_description |-> rows[i].series_description,
                 num_slices |-> count_dcm_files(dirs[i])]>>
                \o series_entries_KeepsEmpty(rows, dirs, i + 1)

\* lines 142-180: series_list, from row i of study_series on; dirs[i] is the
\* source directory of the series of row i
RECURSIVE series_entries(_, _, _)
series_entries(rows, dirs, i) ==
    IF i > Len(rows) THEN <<>>
    ELSE IF ~dirs[i].exists \/ count_dcm_files(dirs[i]) = 0
         THEN series_entries(rows, dirs, i + 1)
         ELSE <<[series_id |-> rows[i].series_id,
                 series_description |-> rows[i].series_description,
                 num_slices |-> count_dcm_files(dirs[i])]>>
                \o series_entries(rows, dirs, i + 1)

\* lines 159-173: the output series directories of a study: the files of
\* each listed series copied under their names, then renamed; slices of
\* one series have different numbers, so natsorted has one order
copied_series(study, rows, dirs) ==
    {[study |-> study, series |-> rows[i].series_id,
      files |-> rename_loop(dirs[i].files, natsorted(DOMAIN dirs[i].files), 1)]
        : i \in {j \in DOMAIN rows : count_dcm_files(dirs[j]) > 0}}

\* studies_metadata[key] = value on a dict held as its items in insertion
\* order: a new key goes last, a key already there keeps its place
dict_set(items, key, value) ==
    IF \E i \in DOMAIN items : items[i].key = key
    THEN [i \in DOMAIN items |->
             IF items[i].key = key THEN [key |-> key, value |-> value]
             ELSE items[i]]
    ELSE Append(items, [key |-> key, value |-> value])

\* the metadata file before it is written
NoMetadata == [written |-> FALSE, valid_study_ids |-> <<>>, studies |-> <<>>]

ExtractInit ==
    /\ xpc = "start"
    /\ train_images \in SUBSET NumericTexts
    /\ extract_valid_ids = {}
    /\ extract_t2_df = <<>>
    /\ validation_studies = <<>>
    /\ extract_visited = 0
    /\ studies_metadata = <<>>
    /\ skipped_studies = <<>>
    /\ output_dicoms = {}
    /\ metadata = NoMetadata
    /\ extract_exception = "none"

ExtractIdle ==
    /\ ExtractInit
    /\ train_images = {}

\* lines 85-91: valid_id.npy, or exit
ExtractLoadIds ==
    /\ xpc = "start"
    /\ \E exists \in BOOLEAN :
          IF exists
          THEN /\ \E texts \in SUBSET NumericTexts :
                     extract_valid_ids' = {PyInt(t) : t \in texts}
               /\ xpc' = "ids"
               /\ UNCHANGED extract_exception
          ELSE /\ extract_exception' = "SystemExit"
               /\ xpc' = "exited"
               /\ UNCHANGED extract_valid_ids
    /\ UNCHANGED <<train_images, extract_t2_df, validation_studies,
                   extract_visited, studies_metadata, skipped_studies,
                   output_dicoms, metadata>>
    /\ UNCHANGED <<reportVars, inferenceVars, metricVars, renameVars, webVars>>

\* lines 98-114: the series CSV, or exit; the T2 rows of the validation
\* studies, and these studies
ExtractLoadSeries ==
    /\ xpc = "ids"
    /\ \E exists \in BOOLEAN :
          IF exists
          THEN /\ \E file \in SeriesFiles :
                     extract_t2_df' =
                        isin_rows(T2Rows(read_csv(file)), extract_valid_ids)
               /\ validation_studies' = unique_study_ids(extract_t2_df', {})
               /\ xpc' = "loop"
               /\ UNCHANGED extract_exception
          ELSE /\ extract_exception' = "SystemExit"
               /\ xpc' = "exited"
               /\ UNCHANGED <<extract_t2_df, validation_studies>>
    /\ UNCHANGED <<train_images, extract_valid_ids, extract_visited,
                   studies_metadata, skipped_studies, output_dicoms, metadata>>
    /\ UNCHANGED <<reportVars, inferenceVars, metricVars, renameVars, webVars>>

\* lines 127-186: one iteration of the loop over the studies
ExtractStudy ==
    /\ xpc = "loop"
    /\ extract_visited < Len(validation_studies)
    /\ LET study_id == validation_studies[extract_visited + 1]
           rows == study_series(extract_t2_df, study_id)
       IN  IF study_id[2] \notin train_images
           THEN /\ skipped_studies' = Append(skipped_studies, study_id)
                /\ UNCHANGED <<studies_metadata, output_dicoms>>
           ELSE \E dirs \in [DOMAIN rows -> SourceSeriesDirs] :
                   LET series_list == series_entries(rows, dirs, 1)
                   IN  /\ output_dicoms' =
                             output_dicoms
                                \cup copied_series(study_id[2], rows, dirs)
                       /\ studies_metadata' =
                             IF series_list # <<>>
                             THEN dict_set(studies_metadata, study_id[2],
                                           [study_id |-> PyInt(study_id[2]),
                                            series |-> series_list])
                             ELSE studies_metadata
                       /\ UNCHANGED skipped_studies
    /\ extract_visited' = extract_visited + 1
    /\ UNCHANGED <<xpc, train_images, extract_valid_ids, extract_t2_df,
                   validation_studies, metadata, extract_exception>>
    /\ UNCHANGED <<reportVars, inferenceVars, metricVars, renameVars, webVars>>

\* lines 189-199: write study_metadata.json
ExtractSave ==
    /\ xpc = "loop"
    /\ extract_visited = Len(validation_studies)
    /\ metadata' =
          [written |-> TRUE,
           valid_study_ids |->
              [i \in DOMAIN studies_metadata |->
                  PyInt(studies_metadata[i].key)],
           studies |-> studies_metadata]
    /\ xpc' = "saved"
    /\ UNCHANGED <<train_images, extract_valid_ids, extract_t2_df,
                   validation_studies, extract_visited, studies_metadata,
                   skipped_studies, output_dicoms, extract_exception>>
    /\ UNCHANGED <<reportVars, inferenceVars, metricVars, renameVars, webVars>>

\* lines 201-268: the summary: line 222 divides by len(studies_metadata),
\* and line 267 formats output_base, a name main never binds
ExtractSummary ==
    /\ xpc = "saved"
    /\ extract_exception' =
          IF studies_metadata = <<>> THEN "ZeroDivisionError" ELSE "NameError"
    /\ xpc' = "raised"
    /\ UNCHANGED <<train_images, extract_valid_ids, extract_t2_df,
                   validation_studies, extract_visited, studies_metadata,
                   skipped_studies, output_dicoms, metadata>>
    /\ UNCHANGED <<reportVars, inferenceVars, metricVars, renameVars, webVars>>

ExtractNext ==
    \/ ExtractLoadIds
    \/ ExtractLoadSeries
    \/ ExtractStudy
    \/ ExtractSave
    \/ ExtractSummary

(***************************************************************************)
(* web/app.py: the /analyze handler (lines 85-179), one thread per request *)
(***************************************************************************)
NumRequests == 2

\* the handler threads of the server (app.run serves each request in a
\* thread of its own)
Requests == 1..NumRequests

Filenames == {"a.dcm", "b.dcm"}

\* a request: without a 'file' part, with an empty filename, or with a file
\* that pydicom can read and decode (valid) or not
Uploads ==
    {[has_file |-> FALSE, filename |-> "", valid |-> FALSE],
     [has_file |-> TRUE, filename |-> "", valid |-> FALSE]}
      \cup [has_file : {TRUE}, filename : Filenames, valid : BOOLEAN]

NoResponse == [status |-> 0, error |-> "", of |-> 0]
NoDataset == [owner |-> 0, valid |-> FALSE]

\* line 99: os.path.join(app.config['UPLOAD_FOLDER'], file.filename); the
\* folder is one directory made at import (line 25), so the path is the name
filepath(r) == request[r].filename

WebInit ==
    /\ upload_folder = <<>>
    /\ request \in [Requests -> Uploads]
    /\ wpc = [r \in Requests |-> "received"]
    /\ dcm_read = [r \in Requests |-> NoDataset]
    /\ response = [r \in Requests |-> NoResponse]

\* the server without a request
WebIdle ==
    /\ upload_folder = <<>>
    /\ request = [r \in Requests |->
                     [has_file |-> FALSE, filename |-> "", valid |-> FALSE]]
    /\ wpc = [r \in Requests |-> "idle"]
    /\ dcm_read = [r \in Requests |-> NoDataset]
    /\ response = [r \in Requests |-> NoResponse]

\* lines 89-95: reject a request without file or without filename
validate(r) ==
    /\ wpc[r] = "received"
    /\ IF ~request[r].has_file
       THEN /\ response' = [response EXCEPT ![r] =
                  [status |-> 400, error |-> "No file uploaded", of |-> 0]]
            /\ wpc' = [wpc EXCEPT ![r] = "responded"]
       ELSE IF request[r].filename = ""
       THEN /\ response' = [response EXCEPT ![r] =
                  [status |-> 400, error |-> "No file selected", of |-> 0]]
            /\ wpc' = [wpc EXCEPT ![r] = "responded"]
       ELSE /\ wpc' = [wpc EXCEPT ![r] = "try"]
            /\ UNCHANGED response
    /\ UNCHANGED <<upload_folder, request, dcm_read>>

\* line 100: file.save(filepath) creates the file or replaces its content
save(r) ==
    /\ wpc[r] = "try"
    /\ upload_folder' =
          (filepath(r) :> [owner |-> r, valid |-> request[r].valid])
             @@ upload_folder
    /\ wpc' = [wpc EXCEPT ![r] = "saved"]
    /\ UNCHANGED <<request, dcm_read, response>>

\* lines 103-157: pydicom.dcmread(filepath), pixel_array, the plots and the
\* mock detector; any exception is answered at 178-179 with status 500
read(r) ==
    /\ wpc[r] = "saved"
    /\ IF filepath(r) \notin DOMAIN upload_folder
       THEN /\ response' = [response EXCEPT ![r] =
                  [status |-> 500, error |-> "FileNotFoundError", of |-> 0]]
            /\ wpc' = [wpc EXCEPT ![r] = "responded"]
            /\ UNCHANGED dcm_read
       ELSE IF ~upload_folder[filepath(r)].valid
       THEN /\ response' = [response EXCEPT ![r] =
                  [status |-> 500, error |-> "InvalidDicomError", of |-> 0]]
            /\ wpc' = [wpc EXCEPT ![r] = "responded"]
            /\ UNCHANGED dcm_read
       ELSE /\ dcm_read' = [dcm_read EXCEPT ![r] = upload_folder[filepath(r)]]
            /\ wpc' = [wpc EXCEPT ![r] = "analysed"]
            /\ UNCHANGED response
    /\ UNCHANGED <<upload_folder, request>>

\* lines 160-176: os.remove(filepath), then the success response with the
\* results and the patient_info of the dataset that was read
remove(r) ==
    /\ wpc[r] = "analysed"
    /\ IF filepath(r) \notin DOMAIN upload_folder
       THEN /\ response' = [response EXCEPT ![r] =
                  [status |-> 500, error |-> "FileNotFoundError", of |-> 0]]
            /\ UNCHANGED upload_folder
       ELSE /\ upload_folder' =
                  [f \in DOMAIN upload_folder \ {filepath(r)} |->
                      upload_folder[f]]
            /\ response' = [response EXCEPT ![r] =
                  [status |-> 200, error |-> "", of |-> dcm_read[r].owner]]
    /\ wpc' = [wpc EXCEPT ![r] = "responded"]
    /\ UNCHANGED <<request, dcm_read>>

Validate ==
    /\ \E r \in Requests : validate(r)
    /\ UNCHANGED <<reportVars, inferenceVars, metricVars, renameVars,
                   extractVars>>

Save ==
    /\ \E r \in Requests : save(r)
    /\ UNCHANGED <<reportVars, inferenceVars, metricVars, renameVars,
                   extractVars>>

Read ==
    /\ \E r \in Requests : read(r)
    /\ UNCHANGED <<reportVars, inferenceVars, metricVars, renameVars,
                   extractVars>>

Remove ==
    /\ \E r \in Requests : remove(r)
    /\ UNCHANGED <<reportVars, inferenceVars, metricVars, renameVars,
                   extractVars>>

WebNext ==
    \/ Validate
    \/ Save
    \/ Read
    \/ Remove

\* the three programs of the repository root and of web/ before they run
ToolsIdle == RenameIdle /\ ExtractIdle /\ WebIdle

\* run_inference before it is called, in trial mode
InferenceIdle ==
    /\ InferenceInit
    /\ mode = "trial"
    /\ output_csv.rows = <<>>

ReportNext ==
    \/ ReadCsv
    \/ Classify
    \/ TopCandidates
    \/ CaseImages
    \/ Render

\* generate_report alone: run_inference does not run
InitReport == ReportInit /\ InferenceIdle /\ MetricsIdle /\ ToolsIdle

SpecReport == InitReport /\ [][ReportNext]_vars

\* run_inference alone: generate_report does not run
Init == InferenceInit /\ ReportInit /\ MetricsIdle /\ ToolsIdle

Spec == Init /\ [][Next]_vars

\* the calculator alone, called on one heatmap
InitCalculator ==
    CalcInit /\ PointIdle /\ DicomIdle /\ InferenceIdle /\ ReportInit
        /\ ToolsIdle

SpecCalculator == InitCalculator /\ [][CalcNext]_vars

\* probability_to_point_with_uncertainty alone, called on one stack
InitPoints ==
    PointInit /\ CalcIdle /\ DicomIdle /\ InferenceIdle /\ ReportInit
        /\ ToolsIdle

SpecPoints == InitPoints /\ [][PointNext]_vars

\* the two readers alone, called on one series directory
InitDicom ==
    DicomInit /\ CalcIdle /\ PointIdle /\ InferenceIdle /\ ReportInit
        /\ ToolsIdle

SpecDicom == InitDicom /\ [][DicomNext]_vars

\* rename_dcm_files_sequential alone, called on one directory
InitRename ==
    RenameInit /\ ExtractIdle /\ WebIdle /\ MetricsIdle /\ InferenceIdle
        /\ ReportInit

SpecRename == InitRename /\ [][RenameNext]_vars

\* one run of extract_validation_dicoms.py
InitExtract ==
    ExtractInit /\ RenameIdle /\ WebIdle /\ MetricsIdle /\ InferenceIdle
        /\ ReportInit

SpecExtract == InitExtract /\ [][ExtractNext]_vars

\* the web demo serving its requests at the same time
InitWeb ==
    WebInit /\ RenameIdle /\ ExtractIdle /\ MetricsIdle /\ InferenceIdle
        /\ ReportInit

SpecWeb == InitWeb /\ [][WebNext]_vars

Classified == rpc \notin {"start", "loaded"}
Ranked == rpc \notin {"start", "loaded", "classified"}
CasesDone == rpc \in {"cases", "done_cases"}

(***************************************************************************)
(* Claims about generate_report                                            *)
(***************************************************************************)
RiskLabels == {"Low Risk", "Moderate Risk", "High Risk"}

\* the rule table of the specification, for a threshold configuration cfg
RuleTable(c, e, cfg) ==
    IF c < cfg.high_risk_confidence \/ e > cfg.high_risk_entropy
    THEN "High Risk"
    ELSE IF cfg.high_risk_confidence <= c /\ c < cfg.moderate_risk_confidence
         THEN "Moderate Risk"
         ELSE "Low Risk"

\* the thresholds written into generate_report
FixedConfig ==
    [high_risk_confidence |-> HIGH_RISK_CONF,
     moderate_risk_confidence |-> MODERATE_RISK_CONF,
     high_risk_entropy |-> HIGH_RISK_ENTROPY]

\* threshold configurations a caller may want to run with
ThresholdConfigs ==
    {[high_risk_confidence |-> h, moderate_risk_confidence |-> m,
      high_risk_entropy |-> e] :
        h \in {960, HIGH_RISK_CONF, 980}, m \in {MODERATE_RISK_CONF, 990},
        e \in EntropySamples}

Confidences(frame) == [i \in DOMAIN frame |-> frame[i].l5_s1_confidence]
Labels(frame) == [i \in DOMAIN frame |-> frame[i].risk_level]

\* s is a ranking of frame: the same rows, ascending in confidence
IsRankingOf(s, frame) ==
    /\ Len(s) = Len(frame)
    /\ Range(s) = Range(frame)
    /\ \A i \in 1..(Len(s) - 1) :
          s[i].l5_s1_confidence <= s[i + 1].l5_s1_confidence

\* s is the first min(n, Len(full)) elements of full, in the same order
IsPrefixOf(s, full, n) ==
    /\ Len(s) = Min(n, Len(full))
    /\ \A i \in 1..Len(s) : s[i] = full[i]

\* C3: every row's risk label is the rule table's answer for its L5-S1
\* metrics; high entropy wins over the moderate band, a confidence equal to
\* the high threshold is Moderate and one equal to the moderate threshold
\* is Low.
C3_RuleTable ==
    Classified =>
        \A i \in DOMAIN df :
            LET c == df[i].l5_s1_confidence
                e == df[i].l5_s1_entropy
                l == df[i].risk_level
            IN  /\ l = RuleTable(c, e, FixedConfig)
                /\ (e > HIGH_RISK_ENTROPY) => l = "High Risk"
                /\ (c = HIGH_RISK_CONF /\ e <= HIGH_RISK_ENTROPY) => l = "Moderate Risk"
                /\ (c = MODERATE_RISK_CONF /\ e <= HIGH_RISK_ENTROPY) => l = "Low Risk"

C3_Witness ==
    /\ Classified
    /\ \E i, j, k \in DOMAIN df :
          /\ df[i].l5_s1_confidence = HIGH_RISK_CONF
          /\ df[i].l5_s1_entropy = HIGH_RISK_ENTROPY
          /\ df[i].risk_level = "Moderate Risk"
          /\ df[j].l5_s1_confidence = 975
          /\ df[j].l5_s1_entropy > HIGH_RISK_ENTROPY
          /\ df[j].risk_level = "High Risk"
          /\ df[k].l5_s1_confidence = MODERATE_RISK_CONF
          /\ df[k].l5_s1_entropy = HIGH_RISK_ENTROPY
          /\ df[k].risk_level = "Low Risk"

\* C4: after classification every row carries exactly one of the three
\* labels, and the three counts add up to the number of studies.
C4_OneLabelEach ==
    Classified =>
        /\ \A i \in DOMAIN df : df[i].risk_level \in RiskLabels
        /\ stats.high_risk_count + stats.moderate_risk_count
             + stats.low_risk_count = Len(df)

C4_Witness ==
    /\ Classified
    /\ Len(df) >= 3
    /\ stats.high_risk_count > 0
    /\ stats.moderate_risk_count > 0
    /\ stats.low_risk_count > 0

\* C5: three studies with confidences 0.96, 0.975, 0.99 and entropy not
\* above the threshold are labelled High, Moderate, Low, and the ranking
\* lists them as 0.96, 0.975, 0.99.
C5_EndToEnd ==
    (/\ Ranked
     /\ Len(df) = 3
     /\ Range(Confidences(df)) = {960, 975, 990}
     /\ \A i \in DOMAIN df : df[i].l5_s1_entropy <= HIGH_RISK_ENTROPY)
    => /\ Confidences(top_df) = <<960, 975, 990>>
       /\ Labels(top_df) = <<"High Risk", "Moderate Risk", "Low Risk">>
       /\ \A i \in DOMAIN df :
             df[i].risk_level =
                 (IF df[i].l5_s1_confidence = 960 THEN "High Risk"
                  ELSE IF df[i].l5_s1_confidence = 975 THEN "Moderate Risk"
                  ELSE "Low Risk")

C5_Witness ==
    /\ rpc = "done"
    /\ Confidences(df) = <<990, 960, 975>>
    /\ \A i \in DOMAIN df : df[i].l5_s1_entropy <= HIGH_RISK_ENTROPY
    /\ Confidences(top_df) = <<960, 975, 990>>

\* C6 (as claimed): whatever threshold configuration the caller provides,
\* the labels are the rule table's under that configuration.
C6_CallerThresholds ==
    \A cfg \in ThresholdConfigs :
        Classified =>
            \A i \in DOMAIN df :
                df[i].risk_level =
                    RuleTable(df[i].l5_s1_confidence, df[i].l5_s1_entropy, cfg)

\* C6 (amended): the thresholds are the values fixed inside generate_report
\* (0.97, 0.985, 5.2), which it also reports in stats; a configuration the
\* caller has in mind changes nothing: a label agrees with the rule table
\* under that configuration exactly when that configuration gives the row
\* the answer of the fixed one.
C6_FixedThresholds ==
    Classified =>
        /\ stats.high_risk_conf_threshold = FixedConfig.high_risk_confidence
        /\ stats.moderate_risk_conf_threshold = FixedConfig.moderate_risk_confidence
        /\ \A cfg \in ThresholdConfigs : \A i \in DOMAIN df :
              LET c == df[i].l5_s1_confidence
                  e == df[i].l5_s1_entropy
              IN  (df[i].risk_level = RuleTable(c, e, cfg))
                    <=> (RuleTable(c, e, cfg) = RuleTable(c, e, FixedConfig))

C6_Witness ==
    /\ Classified
    /\ \E cfg \in ThresholdConfigs : \E i \in DOMAIN df :
          /\ cfg # FixedConfig
          /\ df[i].risk_level = "Moderate Risk"
          /\ RuleTable(df[i].l5_s1_confidence, df[i].l5_s1_entropy, cfg) = "High Risk"

\* C7 (as claimed): the ranked candidates ascend in L5-S1 confidence and
\* studies of equal confidence appear in ascending study_id order.
C7_TieBreakOnStudyId ==
    Ranked =>
        \A i, j \in DOMAIN top_df :
            i < j =>
                \/ top_df[i].l5_s1_confidence < top_df[j].l5_s1_confidence
                \/ /\ top_df[i].l5_s1_confidence = top_df[j].l5_s1_confidence
                   /\ top_df[i].study_id < top_df[j].study_id

\* the frame with rows i and j exchanged
Swap(frame, i, j) ==
    [k \in DOMAIN frame |->
        IF k = i THEN frame[j] ELSE IF k = j THEN frame[i] ELSE frame[k]]

\* C8 (as claimed): ranking is permutation-stable: listing the same rows in
\* another order (here: any two rows exchanged) yields the same ranking.
C8_PermutationStable ==
    Ranked =>
        \A i, j \in DOMAIN df :
            \A s \in sort_values(Swap(df, i, j)) : s = ranked

\* C9: top-N truncation keeps exactly the first min(N, n) rows of the
\* ranking in unchanged order: N = 20 over the ranking of all rows, N = 5
\* over the ranking of the High Risk rows and of the Moderate Risk rows.
C9_TopNIsPrefix ==
    /\ Ranked =>
          /\ IsRankingOf(ranked, df)
          /\ IsPrefixOf(top_df, ranked, TopCandidatesN)
    /\ CasesDone =>
          /\ IsRankingOf(ranked_high, SelectRows(df, "High Risk"))
          /\ IsPrefixOf(high_risk_df, ranked_high, CaseImagesN)
          /\ IsRankingOf(ranked_moderate, SelectRows(df, "Moderate Risk"))
          /\ IsPrefixOf(moderate_risk_df, ranked_moderate, CaseImagesN)

C9_Witness ==
    /\ CasesDone
    /\ Len(ranked) > TopCandidatesN
    /\ Len(top_df) = TopCandidatesN
    /\ Len(ranked_high) > CaseImagesN
    /\ Len(high_risk_df) = CaseImagesN
    /\ Len(ranked_moderate) > CaseImagesN
    /\ Len(moderate_risk_df) = CaseImagesN

(***************************************************************************)
(* Claims about run_inference                                              *)
(***************************************************************************)
\* the candidate study set: the studies with a Sagittal T2 series
Candidates == Range(unique_study_ids(t2_df, {}))

\* the studies whose records reached results
ResultStudies == {results[i]["study_id"] : i \in DOMAIN results}

\* C1 (as claimed): with the validation ids loaded, every study that is
\* processed into a result is a candidate study and a member of the
\* validation-id set, in every mode.
C1_OnlyValidationStudies ==
    use_validation_only =>
        \A s \in ResultStudies :
            /\ s \in Candidates
            /\ str(s) \in valid_ids.ids

\* the validation-id set is missing, or loaded and empty
NoValidationIds == ipc # "start" /\ (valid_ids.none \/ valid_ids.ids = {})

\* C2 (as claimed): with the validation-id set missing or empty the run
\* stops before any processing: no study is visited, no record is made and
\* no results table is written.
C2_FailsBeforeProcessing ==
    NoValidationIds =>
        /\ visited = 0
        /\ results = <<>>
        /\ ~output_csv.written

\* C2 (amended): a missing validation-id file is no configuration error:
\* run_inference turns the filter off and keeps the whole candidate list,
\* and in prod mode a run that gets past the model step visits every
\* candidate and writes the results table.  A file without ids is no
\* configuration error either: the filter then retains no candidate.
C2_MissingIdsRunUnfiltered ==
    /\ exception # "ConfigurationError"
    /\ (ipc # "start" /\ valid_ids.none) => ~use_validation_only
    /\ (ipc = "filtered" /\ valid_ids.none) =>
          studies = unique_study_ids(t2_df, {})
    /\ (ipc = "filtered" /\ ~valid_ids.none /\ valid_ids.ids = {}) =>
          studies = <<>>
    /\ (ipc \in {"done", "raised"} /\ valid_ids.none /\ mode = "prod") =>
          /\ visited = Cardinality(Candidates)
          /\ output_csv.written

C2_Witness ==
    /\ ipc = "done"
    /\ valid_ids.none
    /\ mode = "prod"
    /\ Len(results) >= 2
    /\ output_csv.rows = results

\* the columns of the results table
CanonicalLevels == {"l1_l2", "l2_l3", "l3_l4", "l4_l5", "l5_s1"}

CanonicalColumns ==
    {"study_id", "series_id"}
      \cup {l \o "_confidence" : l \in CanonicalLevels}
      \cup {l \o "_entropy" : l \in CanonicalLevels}
      \cup {l \o "_spatial_entropy" : l \in CanonicalLevels}

\* C10: every record appended to results (and every row written to the
\* results table) has study_id, series_id and the three metric columns of
\* each of the five canonical levels, and no other column; no record with
\* fewer levels is ever appended.
C10_CanonicalColumns ==
    /\ \A i \in DOMAIN results : DOMAIN results[i] = CanonicalColumns
    /\ \A i \in DOMAIN output_csv.rows :
          DOMAIN output_csv.rows[i] = CanonicalColumns
    /\ Cardinality(CanonicalColumns) = 17

C10_Witness ==
    /\ ipc = "done"
    /\ Len(results) >= 2
    /\ output_csv.rows = results
    /\ results[1]["l5_s1_confidence"] # results[2]["l5_s1_confidence"]

\* C11 (as claimed): the results table is append-only: every row that
\* lstv_uncertainty_metrics.csv holds before a step of run_inference is
\* still a row of it, unchanged, after the step.
C11_AppendOnly ==
    [][\A i \in DOMAIN output_csv.rows :
          \E j \in DOMAIN output_csv'.rows :
              output_csv'.rows[j] = output_csv.rows[i]]_vars

\* C12 (as claimed): once the loop has skipped a study, the run still
\* visits every selected study, writes the results table and ends without
\* an exception.
C12_SkipsNeverFail ==
    (ipc \in {"done", "raised"} /\ skipped # <<>>) =>
        /\ visited = Len(studies)
        /\ output_csv.written
        /\ exception = "none"

(***************************************************************************)
(* Claims about UncertaintyCalculator                                      *)
(***************************************************************************)
\* a and b, in thousandths, agree within the tolerance of 0.002
Near(a, b) == a - b \in -2..2

\* an entropy below 0: by its thousandths, and where these are 0 by the
\* first-order term of the epsilon guards
Negative(e) == e.milli < 0 \/ (e.milli = 0 /\ e.pico < 0)

\* every entry of the heatmap is q
AllEqual(h, q) ==
    /\ h # <<>>
    /\ \A r \in DOMAIN h : \A c \in DOMAIN h[r] : h[r][c] = q

NumPixels(h) == Len(h) * Len(h[1])

\* C13 (as claimed): on an all-zero heatmap calculate_uncertainty returns an
\* entropy near log(number of pixels) and calculate_spatial_entropy returns
\* an entropy near log(number of grid cells).
C13_ZeroSaturatesAtUniform ==
    AllEqual(heatmap, 0) =>
        /\ \A i \in DOMAIN uncertainty :
              Near(uncertainty[i].entropy.milli, LnMilli[NumPixels(heatmap)])
        /\ \A i \in DOMAIN spatial :
              Near(spatial[i].milli, LnMilli[num_bins * num_bins])

\* C14 (as claimed): on a heatmap of any shape whose entries are all equal
\* and positive, calculate_uncertainty returns log(H*W) and
\* calculate_spatial_entropy with grid size N returns log(N*N), within
\* tolerance.
C14_UniformEntropy ==
    \A q \in PixelValues \ {0} :
        AllEqual(heatmap, q) =>
            /\ \A i \in DOMAIN uncertainty :
                  Near(uncertainty[i].entropy.milli,
                       LnMilli[NumPixels(heatmap)])
            /\ \A i \in DOMAIN spatial :
                  Near(spatial[i].milli, LnMilli[num_bins * num_bins])

\* the largest entry of the heatmap, in quarters
MaxEntry(h) ==
    CHOOSE m \in PixelValues :
        /\ \E r \in DOMAIN h : \E c \in DOMAIN h[r] : h[r][c] = m
        /\ \A r \in DOMAIN h : \A c \in DOMAIN h[r] : h[r][c] <= m

\* C15 (as claimed): every record the calculator produces on a probability
\* map has peak_confidence in [0, 1] and equal to the largest entry,
\* entropy >= 0 and spatial_entropy >= 0; every record of
\* generate_mock_uncertainty has a confidence in [0, 1] and entropies >= 0.
C15_MetricRanges ==
    /\ \A i \in DOMAIN uncertainty :
          /\ uncertainty[i].peak_confidence \in 0..4
          /\ uncertainty[i].peak_confidence = MaxEntry(heatmap)
          /\ ~Negative(uncertainty[i].entropy)
    /\ \A i \in DOMAIN spatial : ~Negative(spatial[i])
    /\ \A stream \in MockStreams : \A level \in Range(LevelNames) :
          LET m == generate_mock_uncertainty(stream)[level]
          IN  /\ m.peak_confidence \in 0..1000
              /\ m.entropy >= 0
              /\ m.spatial_entropy >= 0

(***************************************************************************)
(* Claims about probability_to_point_with_uncertainty                      *)
(***************************************************************************)
\* the levels whose iteration of the loop is over in the current call
Processed == 1..(l_loop - 1)

\* the pixels (row, column), counted from 0, of channel k that exceed t
HotPixels(prob, k, t) ==
    {p \in (0..(Len(prob[k + 1]) - 1)) \X (0..(Len(prob[k + 1][1]) - 1)) :
        prob[k + 1][p[1] + 1][p[2] + 1] > t}

\* v is a / n rounded to the nearest integer, a tie to the even one
IsRounded(v, a, n) ==
    LET gap == IF n * v >= a THEN n * v - a ELSE a - n * v
    IN  /\ 2 * gap <= n
        /\ 2 * gap = n => v % 2 = 0

C18_MetricsForAllLevels ==
    /\ Len(points) = l_loop - 1
    /\ DOMAIN uncertainty_metrics = {LevelNames[k] : k \in Processed}
    /\ l_loop = 6 => DOMAIN uncertainty_metrics = CanonicalLevels
    /\ \A k \in Processed :
          points[k] = <<NoneCoord, NoneCoord>>
              <=> HotPixels(probability, k, threshold) = {}
    /\ \A i \in DOMAIN returned :
          /\ Len(returned[i][1]) = 5
          /\ DOMAIN returned[i][2] = CanonicalLevels

C18_Witness ==
    /\ l_loop = 6
    /\ \E k \in 1..5 : points[k] = <<NoneCoord, NoneCoord>>
    /\ \E k \in 1..5 : points[k] # <<NoneCoord, NoneCoord>>
    /\ Cardinality(DOMAIN uncertainty_metrics) = 5

\* C19 (as claimed): num_pixels_above_threshold counts the pixels strictly
\* above the threshold; with a positive count the point is (row, col), the
\* rounded means of the row and of the column indices of those pixels; with
\* a count of zero the point is undetected.
C19_PointIsRowCol ==
    \A k \in Processed :
        LET hot == HotPixels(probability, k, threshold)
            n == Cardinality(hot)
        IN  /\ uncertainty_metrics[LevelNames[k]].num_pixels_above_threshold = n
            /\ IF n > 0
               THEN /\ IsRounded(points[k][1], SumCoord(hot, 1), n)
                    /\ IsRounded(points[k][2], SumCoord(hot, 2), n)
               ELSE points[k] = <<NoneCoord, NoneCoord>>

\* C19 (amended): the count is as claimed, and the point is (x, y): first
\* the rounded mean of the column indices, then that of the row indices,
\* a mean halfway between two integers rounded to the even one.
C19_PointIsXY ==
    \A k \in Processed :
        LET hot == HotPixels(probability, k, threshold)
            n == Cardinality(hot)
        IN  /\ uncertainty_metrics[LevelNames[k]].num_pixels_above_threshold = n
            /\ IF n > 0
               THEN /\ IsRounded(points[k][1], SumCoord(hot, 2), n)
                    /\ IsRounded(points[k][2], SumCoord(hot, 1), n)
               ELSE points[k] = <<NoneCoord, NoneCoord>>

C19_Witness ==
    \E k \in Processed :
        LET hot == HotPixels(probability, k, threshold)
        IN  /\ Cardinality(hot) = 2
            /\ SumCoord(hot, 1) = 1
            /\ points[k][1] # points[k][2]
            /\ \E j \in Processed :
                  /\ HotPixels(probability, j, threshold) = {}
                  /\ \E r \in DOMAIN probability[j + 1] :
                        probability[j + 1][r][1] = threshold

\* what one iteration yields for level k of a stack
LevelOutput(prob, k, t) ==
    [point |-> detect_point(where_above(level_heatmap(prob, k), t)),
     metrics |-> level_metrics(level_heatmap(prob, k), t)]

\* the stacks that have channel k of prob and, in every other channel, the
\* background included, a heatmap that is all 0.0 or all 1.0
SameChannel(prob, k) ==
    {[c1 \in 1..6 |->
        IF c1 = k + 1 THEN prob[k + 1]
        ELSE ConstantHeatmap(Len(prob[1]), Len(prob[1][1]), q)]
     : q \in {0, 4}}

\* C20: when the loop is over, the point and the metrics of level k
\* (k = 1..5, in the order l1_l2, l2_l3, l3_l4, l4_l5, l5_s1) are those of
\* channel k: they are the same for every stack with that channel k,
\* whatever the background channel 0 and the other channels hold.
C20_LevelFromItsChannel ==
    l_loop = 6 =>
        \A k \in 1..5 :
            \A other \in SameChannel(probability, k) :
                LET out == LevelOutput(other, k, threshold)
                IN  /\ points[k] = out.point
                    /\ uncertainty_metrics[LevelNames[k]] = out.metrics

C20_Witness ==
    /\ l_loop = 6
    /\ probability[1] # probability[2]
    /\ HotPixels(probability, 0, threshold) # {}
    /\ points[1] = <<NoneCoord, NoneCoord>>
    /\ points[5] # <<NoneCoord, NoneCoord>>

(***************************************************************************)
(* Claims about read_dicom_series                                          *)
(***************************************************************************)
\* the directory is missing, holds no .dcm file, or holds one pydicom
\* cannot read
SeriesUnavailable ==
    \/ ~series_path.exists
    \/ DOMAIN series_path.files = {}
    \/ \E f \in DOMAIN series_path.files : ~series_path.files[f].readable

\* C17: read_dicom_series returns None exactly when the series directory is
\* missing, has no .dcm file, or has a slice that fails to read; otherwise
\* the volume holds every slice file once, a file with the smaller number
\* in its name before one with the larger (2.dcm before 10.dcm).
C17_NumericSliceOrder ==
    dpc \in {"series", "both"} =>
        IF SeriesUnavailable
        THEN dicom_volume = NoArray
        ELSE /\ ~dicom_volume.none
             /\ Len(dicom_volume.slices) = Cardinality(DOMAIN series_path.files)
             /\ {dicom_volume.slices[i].file : i \in DOMAIN dicom_volume.slices}
                    = DOMAIN series_path.files
             /\ \A i \in DOMAIN dicom_volume.slices :
                   \A j \in DOMAIN dicom_volume.slices :
                       i < j => NumberOf(dicom_volume.slices[i].file)
                                  < NumberOf(dicom_volume.slices[j].file)

C17_Witness ==
    /\ dpc = "series"
    /\ ~dicom_volume.none
    /\ Len(dicom_volume.slices) = 3
    /\ dicom_volume.slices[1].file = <<2>>
    /\ dicom_volume.slices[2].file = <<1, 0>>
    /\ LexLess(dicom_volume.slices[2].file, dicom_volume.slices[1].file)

(***************************************************************************)
(* Claims about the grid of calculate_spatial_entropy                      *)
(***************************************************************************)
\* the pixels (row, column), counted from 1, that lie in a bin of the grid:
\* those of the first N * (H // N) rows and N * (W // N) columns
Binned(h, bins) ==
    (1..(bins * (Len(h) \div bins))) \X (1..(bins * (Len(h[1]) \div bins)))

\* the bin, counted from 1 row by row, of a binned pixel
BinOf(h, bins, p) ==
    ((p[1] - 1) \div (Len(h) \div bins)) * bins
        + ((p[2] - 1) \div (Len(h[1]) \div bins)) + 1

RECURSIVE SumPixels(_, _)
SumPixels(h, S) ==
    IF S = {} THEN 0
    ELSE LET p == CHOOSE x \in S : TRUE
         IN  h[p[1]][p[2]] + SumPixels(h, S \ {p})

\* the heatmap h with every pixel outside the bins set to q
WithTrailing(h, bins, q) ==
    [r \in DOMAIN h |-> [c \in DOMAIN h[r] |->
        IF <<r, c>> \in Binned(h, bins) THEN h[r][c] ELSE q]]

\* C21: the mass of bin n is the sum of the pixels of the first
\* N * (H // N) rows and N * (W // N) columns whose row and column fall in
\* bin n, each such pixel in exactly one bin; the pixels of the trailing
\* rows and columns are in no bin, and the spatial entropy returned is the
\* same whatever values they hold.
C21_TrailingPixelsDropped ==
    spatial # <<>> =>
        /\ \A n \in 1..(num_bins * num_bins) :
              binned_probs(heatmap, num_bins)[n]
                 = SumPixels(heatmap,
                      {p \in Binned(heatmap, num_bins) :
                          BinOf(heatmap, num_bins, p) = n})
        /\ \A q \in {0, 4} :
              spatial[1]
                 = calculate_spatial_entropy(
                      WithTrailing(heatmap, num_bins, q), num_bins)

C21_Witness ==
    /\ spatial # <<>>
    /\ num_bins = 2
    /\ Len(heatmap) = 3
    /\ Len(heatmap[1]) = 3
    /\ heatmap[3][3] = 4
    /\ heatmap[1][1] = 4
    /\ heatmap[2][2] = 0
    /\ spatial[1].milli = 0
    /\ spatial[1].pico = 0

(***************************************************************************)
(* Claims about the study loop of run_inference                            *)
(***************************************************************************)
\* the studies the validation filter retains
Retained ==
    validation_filter(unique_study_ids(t2_df, {}), use_validation_only,
                      valid_ids)

\* no element of the list occurs twice
Distinct(list) ==
    \A i \in DOMAIN list : \A j \in DOMAIN list : list[i] = list[j] => i = j

\* C22 (as claimed): mode selection completes without an error for every
\* number n of retained studies, and leaves min(10, n) distinct retained
\* studies in trial mode, exactly one study in debug mode and all n
\* retained studies in prod mode.
C22_ModeBoundsStudies ==
    /\ exception # "IndexError"
    /\ ipc \in {"selected", "loop", "done"} =>
          /\ mode = "trial" =>
                /\ Len(studies) = Min(TrialStudies, Len(Retained))
                /\ Distinct(studies)
                /\ Range(studies) \subseteq Range(Retained)
          /\ mode = "debug" => Len(studies) = 1
          /\ mode = "prod" => studies = Retained

\* the first k selected studies are, in this order, the studies of the
\* first r records and of the first s skips, each study once
RECURSIVE Accounted(_, _, _)
Accounted(k, r, s) ==
    IF k = 0 THEN r = 0 /\ s = 0
    ELSE \/ /\ r > 0
            /\ results[r]["study_id"] = studies[k]
            /\ Accounted(k - 1, r - 1, s)
         \/ /\ s > 0
            /\ skipped[s][1] = studies[k]
            /\ Accounted(k - 1, r, s - 1)

LoopBegun == ipc \in {"loop", "done"} \/ exception = "KeyError"

\* C23: in the study loop the studies visited so far are the first
\* visited entries of the selection, each visited once and in selection
\* order, each either leaving one record or one skip, the records in the
\* order of processing; when the loop has ended every selected study was
\* visited, so records plus skips equal the selected studies; and an
\* iteration visits one more study and changes no earlier record or skip.
C23_LoopAccounts ==
    /\ [](LoopBegun =>
            /\ visited <= Len(studies)
            /\ Len(results) + Len(skipped) = visited
            /\ Accounted(visited, Len(results), Len(skipped))
            /\ ipc # "loop" => visited = Len(studies))
    /\ [][ipc = "loop" =>
            /\ visited' \in {visited, visited + 1}
            /\ visited' = visited => results' = results /\ skipped' = skipped
            /\ \A i \in DOMAIN results : results'[i] = results[i]
            /\ \A i \in DOMAIN skipped : skipped'[i] = skipped[i]]_vars

C23_Witness ==
    /\ ipc = "done"
    /\ visited = 3
    /\ Len(results) = 2
    /\ Len(skipped) = 1
    /\ skipped[1][1] = studies[2]
    /\ results[2]["study_id"] = studies[3]

\* C24: within one run no two records of results are of the same study,
\* so no two share the pair (study_id, series_id), in any mode.
C24_OneRecordPerStudy ==
    \A i \in DOMAIN results : \A j \in DOMAIN results :
        (/\ results[i]["study_id"] = results[j]["study_id"]
         /\ results[i]["series_id"] = results[j]["series_id"]) => i = j

\* a study with two Sagittal T2 series, and records of two studies
C24_Witness ==
    /\ Len(results) = 2
    /\ Len(t2_df) = 3
    /\ Len(unique_study_ids(t2_df, {})) = 2
    /\ t2_df[1].study_id = t2_df[2].study_id
    /\ mode = "prod"

\* C25 (as claimed): the metrics recorded for a study are a function of
\* its volume and of the loaded model: a record of this run equals the row
\* another run wrote for the same study and series, and with a model
\* loaded no record holds the metrics of the mock generator.
C25_MetricsFromVolumeAndModel ==
    /\ \A i \in DOMAIN results : \A table \in EarlierTables :
          \A j \in DOMAIN table :
             (/\ table[j]["study_id"] = results[i]["study_id"]
              /\ table[j]["series_id"] = results[i]["series_id"])
                => results[i] = table[j]
    /\ model = "SimplePointNet" =>
          \A i \in DOMAIN results : \A stream \in MockStreams :
             results[i] # result_record(results[i]["study_id"],
                                        results[i]["series_id"],
                                        generate_mock_uncertainty(stream))

\* run_inference found the series CSV or the checkpoint missing
MissingInput ==
    error_log \cap {"Series CSV not found", "Checkpoint not found"} # {}

\* C26: when the series CSV or the checkpoint does not exist,
\* run_inference returns before the study loop: no study is visited, no
\* record is made, and the results table in output_dir is neither written
\* nor changed by the step that returns.
C26_MissingInputStopsRun ==
    /\ [](MissingInput =>
            /\ ipc = "returned"
            /\ exception = "none"
            /\ visited = 0
            /\ results = <<>>
            /\ skipped = <<>>
            /\ debug_pngs = {}
            /\ ~output_csv.written
            /\ output_csv.rows \in EarlierTables)
    /\ [][ipc' = "returned" => output_csv' = output_csv]_vars

\* the checkpoint is missing, studies were selected and an earlier table
\* is in output_dir
C26_Witness ==
    /\ "Checkpoint not found" \in error_log
    /\ ipc = "returned"
    /\ studies # <<>>
    /\ output_csv.rows # <<>>

(***************************************************************************)
(* Claims about extract_validation_dicoms.py                               *)
(***************************************************************************)
\* the contents held by the files of a directory
Contents(dir) == {dir.files[n] : n \in DOMAIN dir.files}

NumFiles(dir) == Cardinality(DOMAIN dir.files)

\* C27 (as claimed): for any set of .dcm names, no file is overwritten or
\* lost by a rename: the directory holds at every moment as many files as
\* before the call, with the same contents; when the call has returned the
\* files are named 001.dcm to NNN.dcm, the k-th file in natural order
\* under index k; and a second call changes nothing.
C27_RenamePreservesFiles ==
    series_dir.exists =>
        /\ NumFiles(series_dir) = NumFiles(before_rename)
        /\ Contents(series_dir) = Contents(before_rename)
        /\ (rnpc = "idle" /\ rename_calls >= 1) =>
              DOMAIN series_dir.files
                 = {new_name(k) : k \in 1..NumFiles(before_rename)}
        /\ (rnpc = "idle" /\ rename_calls = 1) =>
              \A k \in DOMAIN dcm_files :
                 /\ new_name(k) \in DOMAIN series_dir.files
                 /\ series_dir.files[new_name(k)] = dcm_files[k]
        /\ (rnpc = "idle" /\ rename_calls >= 2) => series_dir = after_first

\* the studies the loop of main has visited
ExtractVisited ==
    {validation_studies[i] : i \in 1..extract_visited}

\* C28: every study in studies_metadata, and in the metadata written, is
\* filed under the text of its id, is a member of the validation-id set,
\* has a source directory, was not skipped, and lists at least one series,
\* each with num_slices >= 1; a visited study whose source directory is
\* missing is in skipped_studies; and valid_study_ids of the metadata
\* written is exactly the keys of its studies, each once.
C28_MetadataWellFormed ==
    /\ \A i \in DOMAIN studies_metadata :
          LET item == studies_metadata[i]
          IN  /\ item.value.study_id = PyInt(item.key)
              /\ item.value.study_id \in extract_valid_ids
              /\ item.value.study_id \in ExtractVisited
              /\ item.key \in train_images
              /\ item.value.study_id \notin Range(skipped_studies)
              /\ item.value.series # <<>>
              /\ \A j \in DOMAIN item.value.series :
                    item.value.series[j].num_slices >= 1
              /\ \A k \in DOMAIN studies_metadata :
                    studies_metadata[k].key = item.key => k = i
    /\ \A study_id \in ExtractVisited :
          study_id[2] \notin train_images =>
              study_id \in Range(skipped_studies)
    /\ \A study_id \in Range(skipped_studies) :
          study_id[2] \notin train_images
    /\ metadata.written =>
          /\ metadata.studies = studies_metadata
          /\ Len(metadata.valid_study_ids) = Len(metadata.studies)
          /\ \A i \in DOMAIN metadata.studies :
                metadata.valid_study_ids[i] = PyInt(metadata.studies[i].key)

\* a written metadata file with one study of two series, one study skipped
\* for its missing directory
C28_Witness ==
    /\ metadata.written
    /\ Len(metadata.studies) = 1
    /\ Len(metadata.studies[1].value.series) = 2
    /\ Len(skipped_studies) = 1
    /\ Len(validation_studies) = 2

(***************************************************************************)
(* Claims about the /analyze handler of web/app.py                         *)
(***************************************************************************)
\* the request got past the checks of lines 89-95, so it saved its file
SavedUpload(r) == wpc[r] = "responded" /\ response[r].status # 400

\* C29 (as claimed): when a request that saved its upload has responded,
\* on the success path or on an error path, the file it saved is no
\* longer in the upload folder.
C29_UploadRemoved ==
    \A r \in Requests :
        SavedUpload(r) =>
            ~(/\ filepath(r) \in DOMAIN upload_folder
              /\ upload_folder[filepath(r)].owner = r)

\* the response the request gets when no other request is served
ResponseAlone(r) ==
    IF request[r].valid
    THEN [status |-> 200, error |-> "", of |-> r]
    ELSE [status |-> 500, error |-> "InvalidDicomError", of |-> 0]

\* C30 (as claimed): two requests served at the same time with the same
\* uploaded filename do not interfere: under every interleaving of their
\* saves, reads and removes each gets the response it gets alone, computed
\* from its own upload.
C30_SameNameNoInterference ==
    \A r \in Requests : \A other \in Requests \ {r} :
        (/\ SavedUpload(r)
         /\ request[other].has_file
         /\ request[other].filename = request[r].filename)
            => response[r] = ResponseAlone(r)

====
